---- MODULE Spec2Model ----
(***************************************************************************)
(* A model of the EduPage protocol client of iobroker.edupage:             *)
(*   - EdupageHttp.rpc, the eqav retry sequencer (lib/edupageHttp.js, the  *)
(*     "eq wrapper" variant);                                              *)
(*   - the backoff adapter (main.js with nextAllowedSyncTs / failCount);   *)
(*   - the warmup-enabled adapter (main.js with captchaBackoffUntil).      *)
(* Strings are modelled as sequences of tokens, so that startsWith, slice  *)
(* and concatenation are computed and not assumed.  Times are in ms.       *)
(***************************************************************************)
EXTENDS Integers, Sequences, FiniteSets, TLC

VARIABLES
    \* ---- EdupageHttp.rpc ----
    rpc_pc,        \* "idle" | "loop" | "returned" | "failed"
    eqav,          \* the loop variable of rpc
    lastErr,       \* rpc's lastErr: NoErr or an error record
    rpc_posts,     \* the eqav ordinals of the POSTs issued by the current call
    rpc_resps,     \* the class of the answer to each POST, in order
    rpc_lastResp,  \* the answer to the latest POST (NoResp before the first)
    rpc_result,    \* what rpc returned (NoValue before it returns)
    rpc_thrown,    \* what rpc threw (NoErr before it throws)
    rpc_cs,        \* the form string cs of the current call
    rpc_requests,  \* the POSTs of the current call: query parameters and body fields
    \* ---- the clock ----
    now,           \* Date.now(), in ms
    \* ---- the backoff adapter (nextAllowedSyncTs / failCount) ----
    nextAllowedSyncTs,
    failCount,
    lastFailReason,
    st_lastError,   \* state meta.lastError
    st_captchaSrc,  \* state meta.captchaSrc
    st_connection,  \* state info.connection
    st_lastSync,    \* state meta.lastSync
    bo_pc,          \* where the running syncOnce is: "idle" | "getData" | "token" | "login"
    bo_started,     \* onReady has made its initial syncOnce
    bo_timerDue,    \* the interval timer has a callback due
    bo_requests,    \* the requests issued by the latest syncOnce
    bo_md,          \* md, the result of getLoginData
    bo_tokRes,      \* tokRes, the answer of getToken in the latest syncOnce
    bo_loginRes,    \* loginRes, the latest answer of login
    bo_outcome,     \* how the latest syncOnce ended
    bo_sched,       \* the latest call of _scheduleBackoff: its time and arguments
    \* ---- the warmup-enabled adapter (captchaBackoffUntil) ----
    captchaBackoffUntil,
    wu_cfg,          \* this.config: studentId and gsh; whether this.terminate exists
    wu_timer,        \* this.timer: "unset" | "active" | "cleared"
    wu_timerDue,     \* the interval timer has a callback due
    wu_terminated,   \* this.terminate() has been called
    wu_pc,           \* where the running syncOnce is
    wu_step,         \* index of the fetch in flight within its sequence
    wu_round,        \* number of currentttGetData calls of this sync so far
    wu_requests,     \* the requests issued by the latest syncOnce
    wu_loginRes,     \* loginRes, the latest answer of login
    wu_jar,          \* the cookie jar: the domains that hold a cookie named edusrs
    wu_outcome,      \* how the latest syncOnce ended
    wu_lastError,    \* state meta.lastError
    wu_captchaRequired, \* state meta.captchaRequired
    wu_captchaUrl,   \* state meta.captchaUrl
    wu_connection,   \* state info.connection
    \* ---- EdupageHttp._requestFollow and its callers get / postJson / postForm ----
    rf_pc,          \* "idle" | "request" | "returned" | "failed"
    rf_entry,       \* the public method that was called
    currentMethod,
    currentUrl,
    currentData,
    hop,            \* the loop variable of _requestFollow
    rf_count,       \* the number of requests this call has handed to this.http.request
    rf_req,         \* the latest request handed to this.http.request
    rf_res,         \* the latest answer of this.http.request
    jar,            \* this.jar: the names of the cookies it holds
    rf_result,      \* what the public method returned
    rf_error,       \* what the public method threw
    \* ---- EdupageClient (the variant that requires the edusrs cookie) ----
    ec_pc,          \* "idle" | "warmup" | "post" | "returned" | "failed"
    ec_http,        \* the http object given to the constructor
    ec_call,        \* the method that was called
    ec_step,        \* the index of the warmup fetch in flight
    ec_requests,    \* the requests issued by the latest call
    ec_fetches,     \* how each warmup fetch of the latest call ended
    ec_jar,         \* this.http.jar: the cookies it holds
    ec_result,      \* what the latest call returned
    ec_error,       \* what the latest call threw
    \* ---- the session-caching adapter (main.js) ----
    mj_runs,          \* the invocations of syncOnce: where each one is
    session,          \* this.session
    sessionCreatedAt, \* this.sessionCreatedAt
    mj_started,       \* onReady has made its initial syncOnce
    mj_timer,         \* this.timer: "null", "active" (setInterval), "cleared"
    mj_jar,           \* the cookies in this.jar, each with the login that got it
    mj_unloaded,      \* onUnload has run
    \* ---- the captcha-text adapter (part_006) ----
    captchaPending,   \* this._captchaPending
    lastSyncRunning,  \* this._lastSyncRunning
    ct_captchaUrl,    \* this._captchaUrl and the state control.captchaUrl
    ct_text,          \* the state control.captchaText: its value and ack flag
    ct_events,        \* the changes of control.captchaText not yet handled
    ct_retry,         \* the texts onStateChange is about to retry with
    ct_runs,          \* the bodies of syncOnce: where each one is
    ct_logins,        \* the ctxt of the login calls since the latest write
    ct_started,       \* onReady has made its initial syncOnce
    ct_timer,         \* this.timer is set
    ct_timerDue,      \* the interval has passed
    ct_lastError,     \* the state meta.lastError
    ct_connection,    \* the state info.connection
    ct_writes,        \* how many writes of control.captchaText there were
    ct_lastCall,      \* what the latest call of syncOnce did
    ct_loginRes,      \* loginRes, the latest answer of login
    \* ---- edupagePost and the eq wrapper (part_000) ----
    eq_pc,            \* "idle" | "posted" | "returned" | "failed"
    eq_opts,          \* the options of the call
    eq_form,          \* formEncoded, the form string of the call
    eq_query,         \* the query parameters of the url
    eq_body,          \* what buildEqBody returned
    eq_resp,          \* the answer to the POST
    eq_text,          \* what unwrapEqResponseText returned
    eq_result,        \* what edupagePost returned
    \* ---- the pausedUntil adapter (part_008) ----
    pausedUntil,      \* this.pausedUntil
    pu_ready,         \* onReady: "new" | "syncing" (awaits the initial syncOnce) | "done"
    pu_timer,         \* this.timer: "null" | "active"
    pu_timerDue,      \* the interval timer has a callback due
    pu_pc,            \* where the running syncOnce is
    pu_requests,      \* the requests issued by the latest syncOnce
    pu_loginRes,      \* loginRes, the latest answer of login
    pu_lastCall,      \* what the latest call of syncOnce did at the gate
    pu_captchaUrl,    \* the state meta.captchaUrl
    pu_lastError,     \* the state meta.lastError
    pu_connection,    \* the state info.connection
    pu_blocked        \* handleCaptchaBlock has run

rpcVars == <<rpc_pc, eqav, lastErr, rpc_posts, rpc_resps, rpc_lastResp, rpc_result, rpc_thrown,
             rpc_cs, rpc_requests>>

boVars == <<nextAllowedSyncTs, failCount, lastFailReason, st_lastError, st_captchaSrc,
            st_connection, st_lastSync, bo_pc, bo_started, bo_timerDue, bo_requests,
            bo_md, bo_tokRes, bo_loginRes, bo_outcome, bo_sched>>

wuVars == <<captchaBackoffUntil, wu_cfg, wu_timer, wu_timerDue, wu_terminated, wu_pc, wu_step,
            wu_round, wu_requests, wu_loginRes, wu_jar, wu_outcome, wu_lastError,
            wu_captchaRequired, wu_captchaUrl, wu_connection>>

rfVars == <<rf_pc, rf_entry, currentMethod, currentUrl, currentData, hop, rf_count, rf_req,
            rf_res, jar, rf_result, rf_error>>

\* The components other than rpc and the two adapters above.
ecVars == <<ec_pc, ec_http, ec_call, ec_step, ec_requests, ec_fetches, ec_jar, ec_result,
            ec_error>>

mjVars == <<mj_runs, session, sessionCreatedAt, mj_jar, mj_started, mj_timer, mj_unloaded>>

ctVars == <<captchaPending, lastSyncRunning, ct_captchaUrl, ct_text, ct_events, ct_retry,
            ct_runs, ct_logins, ct_started, ct_timer, ct_timerDue, ct_lastError,
            ct_connection, ct_writes, ct_lastCall, ct_loginRes>>

eqVars == <<eq_pc, eq_opts, eq_form, eq_query, eq_body, eq_resp, eq_text, eq_result>>

puVars == <<pausedUntil, pu_ready, pu_timer, pu_timerDue, pu_pc, pu_requests, pu_loginRes,
            pu_lastCall, pu_captchaUrl, pu_lastError, pu_connection, pu_blocked>>

otherVars == <<rfVars, ecVars, mjVars, ctVars, eqVars, puVars>>

vars == <<rpcVars, now, boVars, wuVars, otherVars>>

(***************************************************************************)
(* EdupageHttp.rpc                                                         *)
(***************************************************************************)

\* this.maxEqav = 7
maxEqav == 7

NoErr == [kind |-> "null"]
NoValue == <<"undefined">>
NoResp == [type |-> "none"]

\* Plain texts a server body can decode to; JSON.parse succeeds on the
\* first two and throws on the others.
JsonTexts == {"{token}", "{status}"}
OtherTexts == {"<html>"}
Texts == JsonTexts \cup OtherTexts

\* Buffer.from(s).toString('base64') and its inverse, as a tagged token.
b64encode(t) == "b64(" \o t \o ")"

b64decodeToString(b) ==
    IF \E t \in Texts : b64encode(t) = b
    THEN CHOOSE t \in Texts : b64encode(t) = b
    ELSE "\\uFFFD"

\* A response body is a sequence of tokens; its first token is the marker
\* when it has one.
Bodies ==
    {<<"eqwd:">>}
      \cup {<<"eqz:", b64encode(t)>> : t \in Texts}
      \cup {<<t>> : t \in Texts}

startsWith(body, marker) == Len(body) > 0 /\ Head(body) = marker

\* The outcomes of this.http.post: a body, or a rejected promise.
TransportErrors == {"network", "timeout", "status"}

Responses ==
    [type : {"body"}, body : Bodies]
      \cup [type : {"error"}, err : TransportErrors]

\* JSON.parse
JSONparses(text) == text \in JsonTexts

JSONparse(text) == <<"parsed", text>>

\* The test of the "eqwd:" marker.
isEqwdNever(body) == FALSE

isEqwd(body) == startsWith(body, "eqwd:")

\* decodeEqzIfNeeded(data)
decodeEqzNoDecode(data) == IF Len(data) = 1 THEN data[1] ELSE data[2]

decodeEqzIfNeeded(data) ==
    IF ~startsWith(data, "eqz:")
    THEN data[1]
    ELSE b64decodeToString(data[2])

\* The class of a response, for the record of what the server answered.
ClassOf(resp) ==
    IF resp.type = "error" THEN "transport"
    ELSE IF startsWith(resp.body, "eqwd:") THEN "eqwd"
    ELSE IF startsWith(resp.body, "eqz:")
         THEN IF JSONparses(b64decodeToString(resp.body[2])) THEN "json" ELSE "unparsable"
    ELSE IF JSONparses(resp.body[1]) THEN "json" ELSE "unparsable"

\* JSON.stringify(rpcObj ?? {}) for the params objects a caller passes.
RpcObjs == {"undefined", "{}", "{username}"}

JSONstringify(rpcObj) == IF rpcObj = "undefined" THEN "{}" ELSE rpcObj

encodeURIComponent(str) ==
    IF str = "{}" THEN "%7B%7D"
    ELSE IF str = "{username}" THEN "%7Busername%7D"
    ELSE str

\* const cs = `rpcparams=${encodeURIComponent(rpcparamsJson)}`
formString(rpcObj) == "rpcparams=" \o encodeURIComponent(JSONstringify(rpcObj))

\* zlib.deflateRawSync(raw), as a tagged token.
deflateRawSync(raw) == "deflate(" \o raw \o ")"

\* A string made of tokens, in one piece.
joined(str) == IF Len(str) = 1 THEN str[1] ELSE str[1] \o str[2]

\* sha1Hex(str), as a tagged token.
sha1HexOfPayload(str) == "sha1(" \o str[Len(str)] \o ")"

sha1Hex(str) == "sha1(" \o joined(str) \o ")"

\* makeEqapFromCs(cs)
makeEqapFromCs(cs) == <<"dz:", b64encode(deflateRawSync(cs))>>

\* const useZip = (eqav % 2) === 1
useZipAlways(n) == TRUE

useZip(n) == (n % 2) = 1

\* The POST of one attempt: the query parameters of its url and the three
\* fields of its body.
rpcEqap(cs, n) == IF useZip(n) THEN makeEqapFromCs(cs) ELSE <<b64encode(cs)>>

rpcRequest(cs, n) ==
    [query |-> [eqav |-> n, maxEqav |-> maxEqav],
     eqap |-> rpcEqap(cs, n),
     eqacs |-> sha1Hex(rpcEqap(cs, n)),
     eqaz |-> "1"]

\* What the inner catch of the parse throws / what the transport rejects with.
ParseError(n) == [kind |-> "parse", at |-> n, detail |-> "RPC parse failed"]

TransportError(n, e) == [kind |-> "transport", at |-> n, detail |-> e]

UnknownError == [kind |-> "unknown", at |-> 0, detail |-> "RPC failed (unknown)"]

\* What the catch block of the loop does with an error e of attempt n:
\* lastErr = e, and the for loop goes on with eqav + 1.
CatchInLoop(e) ==
    /\ lastErr' = e
    /\ eqav' = eqav + 1
    /\ UNCHANGED <<rpc_pc, rpc_result, rpc_thrown>>

\* rpc is called: cs is built, the loop starts with eqav = 1 and lastErr = null.
RpcCall(rpcObj) ==
    /\ rpc_pc \in {"idle", "returned", "failed"}
    /\ rpc_cs' = formString(rpcObj)
    /\ rpc_requests' = <<>>
    /\ rpc_pc' = "loop"
    /\ eqav' = 1
    /\ lastErr' = NoErr
    /\ rpc_posts' = <<>>
    /\ rpc_resps' = <<>>
    /\ rpc_lastResp' = NoResp
    /\ rpc_result' = NoValue
    /\ rpc_thrown' = NoErr
    /\ UNCHANGED <<now, boVars, wuVars, otherVars>>

\* One iteration of the for loop: the POST of ordinal eqav and the handling
\* of its answer.
RpcAttempt(resp) ==
    /\ rpc_pc = "loop"
    /\ eqav <= maxEqav
    /\ rpc_posts' = Append(rpc_posts, eqav)
    /\ rpc_requests' = Append(rpc_requests, rpcRequest(rpc_cs, eqav))
    /\ UNCHANGED rpc_cs
    /\ rpc_resps' = Append(rpc_resps, ClassOf(resp))
    /\ rpc_lastResp' = resp
    /\ IF resp.type = "error"
       THEN CatchInLoop(TransportError(eqav, resp.err))
       ELSE IF isEqwd(resp.body)
       THEN \* continue
            /\ eqav' = eqav + 1
            /\ UNCHANGED <<rpc_pc, lastErr, rpc_result, rpc_thrown>>
       ELSE LET body == decodeEqzIfNeeded(resp.body) IN
            IF JSONparses(body)
            THEN /\ rpc_pc' = "returned"
                 /\ rpc_result' = JSONparse(body)
                 /\ UNCHANGED <<eqav, lastErr, rpc_thrown>>
            ELSE CatchInLoop(ParseError(eqav))
    /\ UNCHANGED <<now, boVars, wuVars, otherVars>>

\* The loop ends without a return: throw lastErr || new Error('RPC failed (unknown)').
RpcExhausted ==
    /\ rpc_pc = "loop"
    /\ eqav > maxEqav
    /\ rpc_pc' = "failed"
    /\ rpc_thrown' = IF lastErr # NoErr THEN lastErr ELSE UnknownError
    /\ UNCHANGED <<eqav, lastErr, rpc_posts, rpc_resps, rpc_lastResp, rpc_result, rpc_cs,
                   rpc_requests>>
    /\ UNCHANGED <<now, boVars, wuVars, otherVars>>

RpcInit ==
    /\ rpc_pc = "idle"
    /\ eqav = 0
    /\ lastErr = NoErr
    /\ rpc_posts = <<>>
    /\ rpc_resps = <<>>
    /\ rpc_lastResp = NoResp
    /\ rpc_result = NoValue
    /\ rpc_thrown = NoErr
    /\ rpc_cs = ""
    /\ rpc_requests = <<>>

RpcNext ==
    \/ \E rpcObj \in RpcObjs : RpcCall(rpcObj)
    \/ \E resp \in Responses : RpcAttempt(resp)
    \/ RpcExhausted

(***************************************************************************)
(* The clock                                                               *)
(***************************************************************************)

\* One step of the clock: 5 minutes, the shortest period of the interval
\* timer (intervalMin = Math.max(5, ...)).
TickMs == 5 * 60 * 1000

\* The model stops the clock after MaxTicks steps.
MaxTicks == 14

\* Date.now() when the adapter starts.
StartMs == TickMs

Max(a, b) == IF a >= b THEN a ELSE b

Min(a, b) == IF a <= b THEN a ELSE b

(***************************************************************************)
(* The backoff adapter: main.js with nextAllowedSyncTs / failCount         *)
(***************************************************************************)

\* this.eduHttp.baseUrl
baseUrl == <<"http", "s://school.example">>

\* The captchaSrc values of a login response: none, a relative path, an absolute URL.
NoSrc == <<>>
RelSrc == <<"/captcha?id=1">>
AbsSrc == <<"http", "s://cdn.example/c.png">>

\* (errTxt || '').toLowerCase().includes('verdächtig') || ....includes('suspic')
looksSuspicious(errTxt) == errTxt \in {"Suspicious activity", "Verdächtige Aktivität"}

LoginBody(status, needCaptcha, captchaSrc, errText) ==
    [type |-> "body", status |-> status, needCaptcha |-> needCaptcha,
     captchaSrc |-> captchaSrc, errText |-> errText]

\* The answers of login: success, the captcha signals, rejections, a transport error.
LoginResponses ==
    {LoginBody("OK", "", NoSrc, ""),
     LoginBody("X", "1", RelSrc, ""),
     LoginBody("X", "1", NoSrc, ""),
     LoginBody("X", "", RelSrc, ""),
     LoginBody("X", "1", AbsSrc, "Suspicious activity"),
     LoginBody("OK", "", AbsSrc, ""),
     LoginBody("X", "0", NoSrc, ""),
     LoginBody("X", "", NoSrc, "Suspicious activity"),
     LoginBody("X", "", NoSrc, "Wrong password"),
     [type |-> "error", err |-> "timeout"]}

\* The answers of getToken.
TokenResponses ==
    {[type |-> "body", token |-> "T1", errText |-> ""],
     [type |-> "body", token |-> "", errText |-> ""],
     [type |-> "body", token |-> "", errText |-> "Unknown user"],
     [type |-> "error", err |-> "timeout"]}

\* The answers of getToken seen by the backoff adapter: also a second token.
BoTokenResponses ==
    TokenResponses \cup {[type |-> "body", token |-> "T2", errText |-> ""]}

NoTokRes == [type |-> "none"]

NoLoginRes == [type |-> "none"]
NoSched == [at |-> 0, suggestedMs |-> 0, prevFailCount |-> 0]

\* this.failCount = Math.min(this.failCount + 1, 10)
nextFailCount(fc) == Min(fc + 1, 10)

\* base = Math.min(5 * 60 * 1000 * Math.pow(2, Math.max(0, failCount - 1)), 6 * 60 * 60 * 1000)
\* ms   = Math.max(base, suggestedMs || 0)
backoffMsNoSuggestion(fc, suggestedMs) ==
    Min(5 * 60 * 1000 * 2 ^ Max(0, fc - 1), 6 * 60 * 60 * 1000)

backoffMsOffByOne(fc, suggestedMs) ==
    Max(Min(5 * 60 * 1000 * 2 ^ fc, 6 * 60 * 60 * 1000), suggestedMs)

backoffMs(fc, suggestedMs) ==
    Max(Min(5 * 60 * 1000 * 2 ^ Max(0, fc - 1), 6 * 60 * 60 * 1000), suggestedMs)

\* _scheduleBackoff(reason, suggestedMs)
scheduleBackoff(reason, suggestedMs) ==
    /\ failCount' = nextFailCount(failCount)
    /\ lastFailReason' = IF reason = "" THEN "unknown" ELSE reason
    /\ nextAllowedSyncTs' = now + backoffMs(nextFailCount(failCount), suggestedMs)
    /\ bo_sched' = [at |-> now, suggestedMs |-> suggestedMs, prevFailCount |-> failCount]

\* _clearBackoffOnSuccess()
clearKeepsTimestamp ==
    /\ failCount' = 0
    /\ lastFailReason' = ""
    /\ nextAllowedSyncTs' = nextAllowedSyncTs

clearBackoffOnSuccess ==
    /\ failCount' = 0
    /\ lastFailReason' = ""
    /\ nextAllowedSyncTs' = 0

\* The gate at the head of syncOnce:
\* this.nextAllowedSyncTs && Date.now() < this.nextAllowedSyncTs
gateAlwaysOpen == FALSE

gateCloses == nextAllowedSyncTs # 0 /\ now < nextAllowedSyncTs

\* full = src.startsWith('http') ? src : `${this.eduHttp.baseUrl}${src}`
captchaFull(src) == IF startsWith(src, "http") THEN src ELSE baseUrl \o src

\* loginRes?.needCaptcha == '1' || loginRes?.captchaSrc
captchaSignal(res) == res.needCaptcha = "1" \/ res.captchaSrc # NoSrc

\* The end of a syncOnce that passed the gate: its locals are gone.
syncEnds(outcome) ==
    /\ bo_outcome' = outcome
    /\ bo_pc' = "idle"
    /\ bo_md' = "null"

\* The catch block of syncOnce, for an error with message msg.
syncCatchClears(msg) ==
    /\ st_lastError' = msg
    /\ st_connection' = FALSE
    /\ clearBackoffOnSuccess
    /\ UNCHANGED bo_sched
    /\ syncEnds("thrown")

syncCatch(msg) ==
    /\ st_lastError' = msg
    /\ st_connection' = FALSE
    /\ IF nextAllowedSyncTs = 0
       THEN scheduleBackoff("Error: " \o msg, 10 * 60 * 1000)
       ELSE UNCHANGED <<failCount, lastFailReason, nextAllowedSyncTs, bo_sched>>
    /\ syncEnds("thrown")

\* The clock advances; the interval timer comes due again.
Tick ==
    /\ now < StartMs + MaxTicks * TickMs
    /\ now' = now + TickMs
    /\ bo_timerDue' = bo_started
    /\ wu_timerDue' = (wu_timer = "active")
    /\ UNCHANGED <<captchaBackoffUntil, wu_cfg, wu_timer, wu_terminated, wu_pc, wu_step, wu_round,
                   wu_requests, wu_loginRes, wu_jar, wu_outcome, wu_lastError,
                   wu_captchaRequired, wu_captchaUrl, wu_connection>>
    /\ UNCHANGED <<nextAllowedSyncTs, failCount, lastFailReason, st_lastError, st_captchaSrc,
                   st_connection, st_lastSync, bo_pc, bo_started, bo_requests, bo_md,
                   bo_tokRes, bo_loginRes, bo_outcome, bo_sched>>
    /\ UNCHANGED <<rpcVars, otherVars>>

\* syncOnce is invoked, by onReady (the first time) or by the interval timer.
\* When the gate is open it clears the two states and issues getLoginData.
syncOnce ==
    /\ bo_pc = "idle"
    /\ ~bo_started \/ bo_timerDue
    /\ bo_started' = TRUE
    /\ bo_timerDue' = FALSE
    /\ IF gateCloses
       THEN /\ bo_outcome' = "skipped"
            /\ bo_requests' = <<>>
            /\ bo_tokRes' = NoTokRes
            /\ UNCHANGED <<nextAllowedSyncTs, failCount, lastFailReason, st_lastError,
                           st_captchaSrc, st_connection, st_lastSync, bo_pc, bo_md,
                           bo_loginRes, bo_sched>>
       ELSE /\ st_lastError' = ""
            /\ st_captchaSrc' = NoSrc
            /\ bo_requests' = <<[op |-> "getLoginData"]>>
            /\ bo_pc' = "getData"
            /\ bo_outcome' = "running"
            /\ bo_loginRes' = NoLoginRes
            /\ bo_tokRes' = NoTokRes
            /\ UNCHANGED <<nextAllowedSyncTs, failCount, lastFailReason, st_connection,
                           st_lastSync, bo_md, bo_sched>>
    /\ UNCHANGED <<rpcVars, now, wuVars, otherVars>>

\* getLoginData settles (a rejection becomes md = null); getToken is issued.
syncGetLoginDataDone(md) ==
    /\ bo_pc = "getData"
    /\ bo_md' = md
    /\ bo_requests' = Append(bo_requests, [op |-> "getToken"])
    /\ bo_pc' = "token"
    /\ UNCHANGED <<nextAllowedSyncTs, failCount, lastFailReason, st_lastError, st_captchaSrc,
                   st_connection, st_lastSync, bo_started, bo_timerDue, bo_tokRes,
                   bo_loginRes, bo_outcome, bo_sched>>
    /\ UNCHANGED <<rpcVars, now, wuVars, otherVars>>

\* !tokRes?.token
hasTokenAlways(tokRes) == TRUE

hasToken(tokRes) == tokRes.token # ""

\* this.eduClient.login({..., userToken: tokRes.token, ..., tu: md?.tu ?? null, ...})
loginCall(tokRes, md) == [op |-> "login", userToken |-> tokRes.token, tu |-> md]

\* getToken settles: without a token the sync throws, with one login is issued.
syncGetTokenDone(tokRes) ==
    /\ bo_pc = "token"
    /\ bo_tokRes' = tokRes
    /\ IF tokRes.type = "error"
       THEN /\ syncCatch(tokRes.err)
            /\ UNCHANGED bo_requests
       ELSE IF ~hasToken(tokRes)
       THEN /\ syncCatch(IF tokRes.errText # "" THEN tokRes.errText ELSE "No token")
            /\ UNCHANGED bo_requests
       ELSE /\ bo_requests' = Append(bo_requests, loginCall(tokRes, bo_md))
            /\ bo_pc' = "login"
            /\ UNCHANGED <<nextAllowedSyncTs, failCount, lastFailReason, st_lastError,
                           st_connection, bo_md, bo_outcome, bo_sched>>
    /\ UNCHANGED <<st_captchaSrc, st_lastSync, bo_started, bo_timerDue, bo_loginRes>>
    /\ UNCHANGED <<rpcVars, now, wuVars, otherVars>>

\* login settles: captcha, rejection or success.
syncLoginDone(loginRes) ==
    /\ bo_pc = "login"
    /\ bo_loginRes' = loginRes
    /\ IF loginRes.type = "error"
       THEN /\ syncCatch(loginRes.err)
            /\ UNCHANGED <<st_captchaSrc, st_lastSync>>
       ELSE IF captchaSignal(loginRes)
       THEN /\ st_lastError' = "Captcha nötig"
            /\ st_captchaSrc' = captchaFull(loginRes.captchaSrc)
            /\ scheduleBackoff("Captcha required by EduPage", 60 * 60 * 1000)
            /\ st_connection' = FALSE
            /\ syncEnds("captcha")
            /\ UNCHANGED st_lastSync
       ELSE IF loginRes.status # "OK"
       THEN LET errTxt == IF loginRes.errText # "" THEN loginRes.errText ELSE "Login failed" IN
            \* _scheduleBackoff, then throw: the catch block finds nextAllowedSyncTs set
            /\ IF looksSuspicious(errTxt)
               THEN scheduleBackoff("Suspicious activity / extra verification", 60 * 60 * 1000)
               ELSE scheduleBackoff("Login failed: " \o errTxt, 15 * 60 * 1000)
            /\ st_lastError' = errTxt
            /\ st_connection' = FALSE
            /\ syncEnds("thrown")
            /\ UNCHANGED <<st_captchaSrc, st_lastSync>>
       ELSE /\ st_connection' = TRUE
            /\ st_lastSync' = now
            /\ clearBackoffOnSuccess
            /\ syncEnds("ok")
            /\ UNCHANGED <<st_lastError, st_captchaSrc, bo_sched>>
    /\ UNCHANGED <<bo_started, bo_timerDue, bo_requests, bo_tokRes>>
    /\ UNCHANGED <<rpcVars, now, wuVars, otherVars>>

\* A direct call of _scheduleBackoff(reason, suggestedMs).
callScheduleBackoff(suggestedMs) ==
    /\ scheduleBackoff("", suggestedMs)
    /\ UNCHANGED <<st_lastError, st_captchaSrc, st_connection, st_lastSync, bo_pc, bo_started,
                   bo_timerDue, bo_requests, bo_md, bo_tokRes, bo_loginRes, bo_outcome>>
    /\ UNCHANGED <<rpcVars, now, wuVars, otherVars>>

\* A direct call of _clearBackoffOnSuccess().
callClearBackoffOnSuccess ==
    /\ clearBackoffOnSuccess
    /\ UNCHANGED <<st_lastError, st_captchaSrc, st_connection, st_lastSync, bo_pc, bo_started,
                   bo_timerDue, bo_requests, bo_md, bo_tokRes, bo_loginRes, bo_outcome, bo_sched>>
    /\ UNCHANGED <<rpcVars, now, wuVars, otherVars>>

\* The suggestedMs arguments: none (undefined), and the three the adapter passes.
SuggestedMs == {0, 10 * 60 * 1000, 15 * 60 * 1000, 60 * 60 * 1000}

BoInit ==
    /\ now = StartMs
    /\ nextAllowedSyncTs = 0
    /\ failCount = 0
    /\ lastFailReason = ""
    /\ st_lastError = ""
    /\ st_captchaSrc = NoSrc
    /\ st_connection = FALSE
    /\ st_lastSync = 0
    /\ bo_pc = "idle"
    /\ bo_started = FALSE
    /\ bo_timerDue = FALSE
    /\ bo_requests = <<>>
    /\ bo_md = "null"
    /\ bo_tokRes = NoTokRes
    /\ bo_loginRes = NoLoginRes
    /\ bo_outcome = "none"
    /\ bo_sched = NoSched

BackoffNext ==
    \/ Tick
    \/ syncOnce
    \/ \E md \in {"null", "md"} : syncGetLoginDataDone(md)
    \/ \E tokRes \in BoTokenResponses : syncGetTokenDone(tokRes)
    \/ \E loginRes \in LoginResponses : syncLoginDone(loginRes)

BackoffUnitNext ==
    \/ Tick
    \/ \E suggestedMs \in SuggestedMs : callScheduleBackoff(suggestedMs)
    \/ callClearBackoffOnSuccess

(***************************************************************************)
(* The warmup-enabled adapter: main.js with captchaBackoffUntil, and the   *)
(* EdupageClient that requires the edusrs cookie                           *)
(***************************************************************************)

\* /verdächtige|zusätzlich überprüfen|Text aus dem Bild|captcha/i.test(errText)
challengeText(errText) ==
    errText \in {"Verdächtige Aktivität", "Bitte Text aus dem Bild eingeben", "CAPTCHA required"}

\* The answers of login seen by this adapter.
WuLoginResponses ==
    LoginResponses
      \cup {LoginBody("X", "", NoSrc, "CAPTCHA required"),
            LoginBody("OK", "", NoSrc, "Bitte Text aus dem Bild eingeben")}

\* Only the two fields of the answer, without the test of err.error_text.
wuCaptchaSignalFlagOnly(res) == res.needCaptcha = "1" \/ res.captchaSrc # NoSrc

\* needCaptcha || loginRes?.needCaptcha === '1' || loginRes?.captchaSrc
wuCaptchaSignal(res) ==
    challengeText(res.errText) \/ res.needCaptcha = "1" \/ res.captchaSrc # NoSrc

\* loginRes?.status !== 'OK'
loginRejectedNever(res) == FALSE

loginRejected(res) == res.status # "OK"

\* makeAbsoluteUrl(path)
makeAbsoluteUrl(path) ==
    IF path = <<>> THEN <<>>
    ELSE IF startsWith(path, "http") THEN path
    ELSE baseUrl \o (IF startsWith(path, "/") \/ SubSeq(path[1], 1, 1) = "/"
                     THEN path ELSE <<"/">> \o path)

\* The four fetches after login, and the three of warmUpTimetable.
PostLoginPaths == <<"/login/", "/", "/dashboard/", "/dashboard/eb.php?mode=timetable">>

WarmupPaths == <<"/", "/dashboard/", "/dashboard/eb.php?mode=timetable">>

Get(path) == [op |-> "GET", path |-> path]

\* What a fetch does to the jar: nothing (also when it fails), or the server
\* sets edusrs on the host or on the parent domain.
FetchEffects == {"none", "host", "parent"}

jarAfter(effect) == IF effect = "none" THEN wu_jar ELSE wu_jar \cup {effect}

\* hasCookie('edusrs'): the host's cookies, then the parent domain's.
hasEdusrs(j) == "host" \in j \/ "parent" \in j

\* The end of a syncOnce; onReady starts the interval timer after the initial one.
wuSyncEnds(outcome, timer, terminated) ==
    /\ wu_outcome' = outcome
    /\ wu_pc' = "idle"
    /\ wu_step' = 0
    /\ wu_timer' = IF timer = "unset" /\ ~terminated THEN "active" ELSE timer

\* The catch block of syncOnce.
wuCatch(msg) ==
    /\ wu_lastError' = msg
    /\ wu_connection' = FALSE
    /\ UNCHANGED wu_terminated
    /\ wuSyncEnds("thrown", wu_timer, FALSE)

\* handleCaptcha(captchaUrl)
handleCaptcha(captchaUrl) ==
    /\ wu_captchaRequired' = TRUE
    /\ wu_captchaUrl' = captchaUrl
    /\ captchaBackoffUntil' = now + 60 * 60 * 1000
    /\ wu_terminated' = wu_cfg.terminate
    /\ wuSyncEnds("captcha", IF wu_timer = "active" THEN "cleared" ELSE wu_timer, wu_cfg.terminate)

\* syncOnce is invoked, by onReady (the first time) or by the interval timer.
wuSyncOnce ==
    /\ wu_pc = "idle"
    /\ ~wu_terminated
    /\ wu_outcome = "none" \/ (wu_timer = "active" /\ wu_timerDue)
    /\ wu_timerDue' = FALSE
    /\ IF captchaBackoffUntil # 0 /\ now < captchaBackoffUntil
       THEN /\ wu_outcome' = "skipped"
            /\ wu_requests' = <<>>
            /\ UNCHANGED <<wu_pc, wu_loginRes, wu_lastError, wu_captchaRequired, wu_captchaUrl>>
       ELSE /\ wu_lastError' = ""
            /\ wu_captchaRequired' = FALSE
            /\ wu_captchaUrl' = <<>>
            /\ wu_requests' = <<[op |-> "getLoginData"]>>
            /\ wu_loginRes' = NoLoginRes
            /\ wu_pc' = "getData"
            /\ wu_outcome' = "running"
    /\ UNCHANGED <<captchaBackoffUntil, wu_cfg, wu_timer, wu_terminated, wu_step, wu_round,
                   wu_jar, wu_connection>>
    /\ UNCHANGED <<rpcVars, now, boVars, otherVars>>

\* getLoginData settles; getToken is issued.
wuGetLoginDataDone ==
    /\ wu_pc = "getData"
    /\ wu_requests' = Append(wu_requests, [op |-> "getToken"])
    /\ wu_pc' = "token"
    /\ UNCHANGED <<captchaBackoffUntil, wu_cfg, wu_timer, wu_timerDue, wu_terminated, wu_step,
                   wu_round, wu_loginRes, wu_jar, wu_outcome, wu_lastError,
                   wu_captchaRequired, wu_captchaUrl, wu_connection>>
    /\ UNCHANGED <<rpcVars, now, boVars, otherVars>>

\* getToken settles: without a token the sync throws, with one login is issued.
wuGetTokenDone(tokRes) ==
    /\ wu_pc = "token"
    /\ IF tokRes.type = "error"
       THEN wuCatch(tokRes.err) /\ UNCHANGED wu_requests
       ELSE IF tokRes.token = ""
       THEN /\ wuCatch(IF tokRes.errText # "" THEN tokRes.errText ELSE "No token")
            /\ UNCHANGED wu_requests
       ELSE /\ wu_requests' = Append(wu_requests, [op |-> "login", userToken |-> tokRes.token])
            /\ wu_pc' = "login"
            /\ UNCHANGED <<wu_timer, wu_terminated, wu_step, wu_outcome, wu_lastError,
                           wu_connection>>
    /\ UNCHANGED <<captchaBackoffUntil, wu_cfg, wu_timerDue, wu_round, wu_loginRes, wu_jar,
                   wu_captchaRequired, wu_captchaUrl>>
    /\ UNCHANGED <<rpcVars, now, boVars, otherVars>>

\* login settles: a captcha challenge, a rejection, or the first fetch after login.
wuLoginDone(loginRes) ==
    /\ wu_pc = "login"
    /\ wu_loginRes' = loginRes
    /\ IF loginRes.type = "error"
       THEN /\ wuCatch(loginRes.err)
            /\ UNCHANGED <<captchaBackoffUntil, wu_requests, wu_captchaRequired, wu_captchaUrl>>
       ELSE IF wuCaptchaSignal(loginRes)
       THEN /\ handleCaptcha(makeAbsoluteUrl(loginRes.captchaSrc))
            /\ UNCHANGED <<wu_requests, wu_lastError, wu_connection>>
       ELSE IF loginRejected(loginRes)
       THEN /\ wuCatch(IF loginRes.errText # "" THEN loginRes.errText ELSE "Login failed")
            /\ UNCHANGED <<captchaBackoffUntil, wu_requests, wu_captchaRequired, wu_captchaUrl>>
       ELSE /\ wu_requests' = Append(wu_requests, Get(PostLoginPaths[1]))
            /\ wu_pc' = "postLogin"
            /\ wu_step' = 1
            /\ UNCHANGED <<captchaBackoffUntil, wu_timer, wu_terminated, wu_outcome,
                           wu_lastError, wu_captchaRequired, wu_captchaUrl, wu_connection>>
    /\ UNCHANGED <<wu_cfg, wu_timerDue, wu_round, wu_jar>>
    /\ UNCHANGED <<rpcVars, now, boVars, otherVars>>

\* One of the four fetches after login settles (a failure is ignored); the next
\* one is issued, or the first fetch of warmUpTimetable.
wuPostLoginFetchDone(effect) ==
    /\ wu_pc = "postLogin"
    /\ wu_jar' = jarAfter(effect)
    /\ IF wu_step < Len(PostLoginPaths)
       THEN /\ wu_requests' = Append(wu_requests, Get(PostLoginPaths[wu_step + 1]))
            /\ wu_step' = wu_step + 1
            /\ UNCHANGED wu_pc
       ELSE /\ wu_requests' = Append(wu_requests, Get(WarmupPaths[1]))
            /\ wu_step' = 1
            /\ wu_pc' = "warmup"
    /\ UNCHANGED <<captchaBackoffUntil, wu_cfg, wu_timer, wu_timerDue, wu_terminated, wu_round,
                   wu_loginRes, wu_outcome, wu_lastError, wu_captchaRequired, wu_captchaUrl,
                   wu_connection>>
    /\ UNCHANGED <<rpcVars, now, boVars, otherVars>>

\* What follows a warmUpTimetable that found the cookie: in syncOnce itself
\* (wu_round = 0) the studentId and _gsh checks and then currentttGetData, whose
\* own warmUpTimetable comes first; inside currentttGetData the POST.
afterWarmup ==
    IF wu_round > 0
    THEN /\ wu_requests' = Append(wu_requests, [op |-> "currentttGetData"])
         /\ wu_pc' = "ttPost"
         /\ wu_step' = 0
         /\ UNCHANGED <<wu_round, wu_timer, wu_outcome, wu_lastError, wu_connection>>
    ELSE IF wu_cfg.studentId = ""
    THEN /\ wu_connection' = TRUE
         /\ wuSyncEnds("noStudentId", wu_timer, FALSE)
         /\ UNCHANGED <<wu_requests, wu_round, wu_lastError>>
    ELSE IF wu_cfg.gsh = ""
    THEN /\ wu_lastError' = "Missing _gsh in adapter config"
         /\ wu_connection' = FALSE
         /\ wuSyncEnds("thrown", wu_timer, FALSE)
         /\ UNCHANGED <<wu_requests, wu_round>>
    ELSE /\ wu_requests' = Append(wu_requests, Get(WarmupPaths[1]))
         /\ wu_round' = 1
         /\ wu_step' = 1
         /\ UNCHANGED <<wu_pc, wu_timer, wu_outcome, wu_lastError, wu_connection>>

\* One of the three fetches of warmUpTimetable settles (a failure is ignored);
\* after the third the jar is asked for edusrs.
wuWarmupFetchDone(effect) ==
    /\ wu_pc = "warmup"
    /\ wu_jar' = jarAfter(effect)
    /\ IF wu_step < Len(WarmupPaths)
       THEN /\ wu_requests' = Append(wu_requests, Get(WarmupPaths[wu_step + 1]))
            /\ wu_step' = wu_step + 1
            /\ UNCHANGED <<wu_pc, wu_round, wu_timer, wu_outcome, wu_lastError, wu_connection>>
       ELSE IF ~hasEdusrs(wu_jar')
       THEN /\ wu_lastError' = "Missing cookie \"edusrs\" after warmup"
            /\ wu_connection' = FALSE
            /\ wuSyncEnds("thrown", wu_timer, FALSE)
            /\ UNCHANGED <<wu_requests, wu_round>>
       ELSE afterWarmup
    /\ UNCHANGED <<captchaBackoffUntil, wu_cfg, wu_timerDue, wu_terminated, wu_loginRes,
                   wu_captchaRequired, wu_captchaUrl>>
    /\ UNCHANGED <<rpcVars, now, boVars, otherVars>>

\* The answers of the timetable POST: a payload, a payload asking for a reload,
\* a transport error.
TtResponses == {[type |-> "body", reload |-> FALSE], [type |-> "body", reload |-> TRUE],
                [type |-> "error", err |-> "timeout"]}

\* The POST of currentttGetData settles: one retry on reload, else parse and write.
wuTtPostDone(ttRes) ==
    /\ wu_pc = "ttPost"
    /\ IF ttRes.type = "error"
       THEN wuCatch(ttRes.err) /\ UNCHANGED <<wu_requests, wu_round>>
       ELSE IF ttRes.reload /\ wu_round = 1
       THEN /\ wu_requests' = Append(wu_requests, Get(WarmupPaths[1]))
            /\ wu_round' = 2
            /\ wu_step' = 1
            /\ wu_pc' = "warmup"
            /\ UNCHANGED <<wu_timer, wu_terminated, wu_outcome, wu_lastError, wu_connection>>
       ELSE /\ wu_connection' = TRUE
            /\ wuSyncEnds("ok", wu_timer, FALSE)
            /\ UNCHANGED <<wu_requests, wu_round, wu_lastError, wu_terminated>>
    /\ UNCHANGED <<captchaBackoffUntil, wu_cfg, wu_timerDue, wu_loginRes, wu_jar,
                   wu_captchaRequired, wu_captchaUrl>>
    /\ UNCHANGED <<rpcVars, now, boVars, otherVars>>

WuConfigs == [studentId : {"", "1234"}, gsh : {"", "abcd1234"}, terminate : BOOLEAN]

WuInit ==
    /\ captchaBackoffUntil = 0
    /\ wu_cfg \in WuConfigs
    /\ wu_timer = "unset"
    /\ wu_timerDue = FALSE
    /\ wu_terminated = FALSE
    /\ wu_pc = "idle"
    /\ wu_step = 0
    /\ wu_round = 0
    /\ wu_requests = <<>>
    /\ wu_loginRes = NoLoginRes
    /\ wu_jar = {}
    /\ wu_outcome = "none"
    /\ wu_lastError = ""
    /\ wu_captchaRequired = FALSE
    /\ wu_captchaUrl = <<>>
    /\ wu_connection = FALSE

WarmupNext ==
    \/ Tick
    \/ wuSyncOnce
    \/ wuGetLoginDataDone
    \/ \E tokRes \in TokenResponses : wuGetTokenDone(tokRes)
    \/ \E loginRes \in WuLoginResponses : wuLoginDone(loginRes)
    \/ \E effect \in FetchEffects : wuPostLoginFetchDone(effect)
    \/ \E effect \in FetchEffects : wuWarmupFetchDone(effect)
    \/ \E ttRes \in TtResponses : wuTtPostDone(ttRes)

(***************************************************************************)
(* EdupageHttp._requestFollow (manual redirects) and get/postJson/postForm *)
(* A URL is a sequence of tokens, each but the last ending with '/'.       *)
(***************************************************************************)

\* const maxHops = 8
maxHops == 8

\* _isRedirect(status)
isRedirect(status) == status \in {301, 302, 303, 307, 308}

\* validateStatus: (s) => s >= 200 && s < 400
validateStatusAll(s) == TRUE

\* The default of the HTTP client: only 2xx resolves.
validateStatusDefault(s) == s >= 200 /\ s < 300

validateStatus(s) == s >= 200 /\ s < 400

\* The Location headers of a response: none, an absolute URL of the same
\* origin, an absolute path, a relative path.
NoLocation == <<>>
AbsLocation == <<"https://", "school.example/", "home">>
PathLocation == <<"/", "next">>
RelLocation == <<"step">>
Locations == {NoLocation, AbsLocation, PathLocation, RelLocation}

\* _resolveLocation(currentUrl, location)
resolveLocation(url, location) ==
    IF location = NoLocation THEN <<>>
    ELSE IF Head(location) \in {"https://", "http://"} THEN location
    ELSE IF Head(location) = "/" THEN location
    ELSE (IF Len(url) > 1 THEN SubSeq(url, 1, Len(url) - 1) ELSE <<"/">>) \o location

\* res.status === 303 || (res.status === 302 && currentMethod !== 'get')
downgradesOn303Only(status, method) == status = 303

downgrades(status, method) == status = 303 \/ (status = 302 /\ method # "get")

\* The loop condition of the next iteration: hop++ ; hop < maxHops
hopsLeftOneMore(h) == h < maxHops

hopsLeft(h) == h + 1 < maxHops

\* The cookie jar, filled by the jar wrapper from the Set-Cookie headers of
\* every response it sees (the client itself follows no redirect).
storeCookiesOfFinalOnly(j, res) == IF isRedirect(res.status) THEN j ELSE j \cup res.setCookie

storeCookies(j, res) == j \cup res.setCookie

\* The statuses a server answers with, and the outcomes of this.http.request
\* at hop h: a response, which may set a cookie of its own, or no response.
Statuses == {200, 301, 302, 303, 307, 308, 404}

HopResponses(h) ==
    [type : {"response"}, status : Statuses, location : Locations,
     setCookie : {{}, {h + 1}}]
      \cup [type : {"error"}, err : {"network", "timeout"}]

NoReq == [method |-> "none"]
NoRes == [type |-> "none"]

\* this.http.request({method, url, data, headers, timeout, maxRedirects: 0, validateStatus})
\* with the Cookie header the jar wrapper adds.
httpRequest(method, url, data, j) ==
    [method |-> method, url |-> url, data |-> data, maxRedirects |-> 0, cookies |-> j]

TooManyRedirects == [kind |-> "Too many redirects"]

\* The public methods: get(url), postJson(url, data), postForm(url, formObj).
Entries == {"get", "postJson", "postForm"}

entryMethod(entry) == IF entry = "get" THEN "get" ELSE "post"

entryData(entry) ==
    IF entry = "get" THEN "undefined" ELSE IF entry = "postJson" THEN "json" ELSE "form"

StartUrl == <<"/login/", "?cmd=MainLogin">>

\* get / postJson / postForm call _requestFollow, which issues the first request.
rfCall(entry) ==
    /\ rf_pc = "idle"
    /\ rf_entry' = entry
    /\ currentUrl' = StartUrl
    /\ currentMethod' = entryMethod(entry)
    /\ currentData' = entryData(entry)
    /\ hop' = 0
    /\ rf_count' = 1
    /\ rf_req' = httpRequest(entryMethod(entry), StartUrl, entryData(entry), jar)
    /\ rf_pc' = "request"
    /\ UNCHANGED <<rf_res, jar, rf_result, rf_error>>
    /\ UNCHANGED <<rpcVars, now, boVars, wuVars, ecVars, mjVars, ctVars, eqVars, puVars>>

\* this.http.request settles at the current hop: the rest of the loop body, up
\* to the next request, the return or the throw (through the catch of the
\* public method, which rethrows).
rfHopDone(res) ==
    /\ rf_pc = "request"
    /\ rf_res' = res
    /\ IF res.type = "error"
       THEN /\ rf_pc' = "failed"
            /\ rf_error' = [kind |-> res.err]
            /\ UNCHANGED <<currentMethod, currentUrl, currentData, hop, rf_count, rf_req, jar,
                           rf_result>>
       ELSE /\ jar' = storeCookies(jar, res)
            /\ IF ~validateStatus(res.status)
               THEN /\ rf_pc' = "failed"
                    /\ rf_error' = [kind |-> "status", status |-> res.status]
                    /\ UNCHANGED <<currentMethod, currentUrl, currentData, hop, rf_count,
                                   rf_req, rf_result>>
               ELSE IF isRedirect(res.status) /\ res.location # NoLocation
               THEN LET method == IF downgrades(res.status, currentMethod)
                                  THEN "get" ELSE currentMethod
                        data == IF downgrades(res.status, currentMethod)
                                THEN "undefined" ELSE currentData
                        nextUrl == resolveLocation(currentUrl, res.location)
                    IN  /\ currentMethod' = method
                        /\ currentData' = data
                        /\ currentUrl' = nextUrl
                        /\ IF hopsLeft(hop)
                           THEN /\ hop' = hop + 1
                                /\ rf_count' = rf_count + 1
                                /\ rf_req' = httpRequest(method, nextUrl, data, jar')
                                /\ UNCHANGED <<rf_pc, rf_result, rf_error>>
                           ELSE /\ hop' = hop + 1
                                /\ rf_pc' = "failed"
                                /\ rf_error' = TooManyRedirects
                                /\ UNCHANGED <<rf_count, rf_req, rf_result>>
               ELSE /\ rf_pc' = "returned"
                    /\ rf_result' = res
                    /\ UNCHANGED <<currentMethod, currentUrl, currentData, hop, rf_count,
                                   rf_req, rf_error>>
    /\ UNCHANGED rf_entry
    /\ UNCHANGED <<rpcVars, now, boVars, wuVars, ecVars, mjVars, ctVars, eqVars, puVars>>

RfInit ==
    /\ rf_pc = "idle"
    /\ rf_entry = "none"
    /\ currentMethod = "none"
    /\ currentUrl = <<>>
    /\ currentData = "undefined"
    /\ hop = 0
    /\ rf_count = 0
    /\ rf_req = NoReq
    /\ rf_res = NoRes
    /\ jar = {}
    /\ rf_result = NoRes
    /\ rf_error = NoErr

FollowNext ==
    \/ \E entry \in Entries : rfCall(entry)
    \/ \E res \in HopResponses(hop) : rfHopDone(res)

\* Every request settles: the client gives up after the timeout of 25 s.
rfSettles == \E res \in HopResponses(hop) : rfHopDone(res)


(***************************************************************************)
(* EdupageClient, the variant that requires the edusrs cookie:             *)
(* hasCookie, warmUpTimetable, currentttGetData                            *)
(***************************************************************************)

\* A cookie is a name and the domain it is stored for: the portal's host or
\* its parent domain.
CookieNames == {"edusrs", "PHPSESSID"}

Cookies == [key : CookieNames, domain : {"host", "parent"}]

\* jar.getCookies(url): the cookies sent to url.  A cookie of the parent
\* domain is sent to the host as well.
getCookies(j, url) ==
    IF url = "host" THEN j ELSE {c \in j : c.domain = "parent"}

\* hasCookie(name): the cookies for the base URL, then those for the parent domain.
hasCookieOfAnyName(j, name) == j # {}

hasCookie(j, name) ==
    \/ \E c \in getCookies(j, "host") : c.key = name
    \/ \E c \in getCookies(j, "parent") : c.key = name

\* const ok = await this.hasCookie('edusrs'); if (!ok) throw ...
warmupThrowsNever(j) == FALSE

warmupThrows(j) == ~hasCookie(j, "edusrs")

MissingCookie(name) == [kind |-> "Missing cookie", cookie |-> name]

NoReferer == <<>>

\* rootRef = `${baseUrl}/`, dashRef = `${baseUrl}/dashboard/`
rootRef == baseUrl \o <<"/">>

dashRef == baseUrl \o <<"/dashboard/">>

\* The i-th fetch of warmUpTimetable: its path and its Referer header.
warmupRequestSameReferer(i) ==
    [op |-> "GET", path |-> WarmupPaths[i], referer |-> IF i = 1 THEN NoReferer ELSE rootRef]

warmupRequest(i) ==
    [op |-> "GET", path |-> WarmupPaths[i],
     referer |-> IF i = 1 THEN NoReferer ELSE IF i = 2 THEN rootRef ELSE dashRef]

\* getCurrentTtPath(), and the POST of currentttGetData with its Referer.
CurrentTtPath == "/timetable/server/currenttt.js?__func=curentttGetData"

currentTtPost ==
    [op |-> "POST", path |-> CurrentTtPath,
     referer |-> baseUrl \o <<"/dashboard/eb.php?mode=timetable">>]

\* How a fetch ends: with a page, or rejected (swallowed by .catch(() => {}));
\* either way the answer may have set one cookie.
FetchOutcomes == {"ok", "rejected"}

SetCookies == {{}} \cup {{c} : c \in Cookies}

\* The http objects a client is built on: with or without the two cookie
\* helpers cookieNamesFor / cookieStringFor that currentttGetData calls.
HttpObjects == {"withCookieHelpers", "plain"}

\* The end of a call.
ecEnds(pc, result, error) ==
    /\ ec_pc' = pc
    /\ ec_result' = result
    /\ ec_error' = error
    /\ ec_step' = 0

\* warmUpTimetable() or currentttGetData() is called: the first fetch is issued.
ecCall(call) ==
    /\ ec_pc \in {"idle", "returned", "failed"}
    /\ ec_call' = call
    /\ ec_requests' = <<warmupRequest(1)>>
    /\ ec_fetches' = <<>>
    /\ ec_step' = 1
    /\ ec_pc' = "warmup"
    /\ ec_result' = "none"
    /\ ec_error' = NoErr
    /\ UNCHANGED <<ec_http, ec_jar>>
    /\ UNCHANGED <<rpcVars, now, boVars, wuVars, rfVars, mjVars, ctVars, eqVars, puVars>>

\* A warmup fetch settles.  After the third, the cookie check; in
\* currentttGetData the two cookie helpers and then the POST.
ecFetchDone(outcome, setCookie) ==
    /\ ec_pc = "warmup"
    /\ ec_jar' = ec_jar \cup setCookie
    /\ ec_fetches' = Append(ec_fetches, outcome)
    /\ IF ec_step < Len(WarmupPaths)
       THEN /\ ec_requests' = Append(ec_requests, warmupRequest(ec_step + 1))
            /\ ec_step' = ec_step + 1
            /\ UNCHANGED <<ec_pc, ec_result, ec_error>>
       ELSE IF warmupThrows(ec_jar')
       THEN /\ ecEnds("failed", "none", MissingCookie("edusrs"))
            /\ UNCHANGED ec_requests
       ELSE IF ec_call = "warmUpTimetable"
       THEN /\ ecEnds("returned", "undefined", NoErr)
            /\ UNCHANGED ec_requests
       ELSE IF ec_http = "plain"
       THEN /\ ecEnds("failed", "none", [kind |-> "TypeError"])
            /\ UNCHANGED ec_requests
       ELSE /\ ec_requests' = Append(ec_requests, currentTtPost)
            /\ ec_pc' = "post"
            /\ ec_step' = 0
            /\ UNCHANGED <<ec_result, ec_error>>
    /\ UNCHANGED <<ec_http, ec_call>>
    /\ UNCHANGED <<rpcVars, now, boVars, wuVars, rfVars, mjVars, ctVars, eqVars, puVars>>

\* The POST of currentttGetData settles: the raw answer is returned, or the
\* rejection propagates.
ecPostDone(ttRes) ==
    /\ ec_pc = "post"
    /\ IF ttRes.type = "error"
       THEN ecEnds("failed", "none", [kind |-> ttRes.err])
       ELSE ecEnds("returned", ttRes, NoErr)
    /\ UNCHANGED <<ec_http, ec_call, ec_requests, ec_fetches, ec_jar>>
    /\ UNCHANGED <<rpcVars, now, boVars, wuVars, rfVars, mjVars, ctVars, eqVars, puVars>>

EcInit ==
    /\ ec_pc = "idle"
    /\ ec_http \in HttpObjects
    /\ ec_call = "none"
    /\ ec_step = 0
    /\ ec_requests = <<>>
    /\ ec_fetches = <<>>
    /\ ec_jar = {}
    /\ ec_result = "none"
    /\ ec_error = NoErr

EcInitDefault == EcInit /\ ec_http = "withCookieHelpers"

ClientNext ==
    \/ \E call \in {"warmUpTimetable", "currentttGetData"} : ecCall(call)
    \/ \E outcome \in FetchOutcomes, setCookie \in SetCookies : ecFetchDone(outcome, setCookie)
    \/ \E ttRes \in TtResponses : ecPostDone(ttRes)

(***************************************************************************)
(* The session-caching adapter (main.js): onReady, ensureSession,          *)
(* edupageLogin, edupageGetMyDayPlan, syncOnce                             *)
(***************************************************************************)

\* The invocations of syncOnce that are followed at the same time.
MaxRuns == 2

RunIds == 1..MaxRuns

\* this.sessionMaxAgeMs = 6 * 60 * 60 * 1000
sessionMaxAgeMs == 6 * 60 * 60 * 1000

\* _isSessionValid()
isSessionValidAtSixHours(s, createdAt, t) ==
    /\ s # "null"
    /\ createdAt # 0
    /\ t - createdAt <= sessionMaxAgeMs

isSessionValid(s, createdAt, t) ==
    /\ s # "null"
    /\ createdAt # 0
    /\ t - createdAt < sessionMaxAgeMs

\* _looksLikeAuthProblem(err), on the kinds of failure of edupageGetMyDayPlan:
\* 'gpid/gsh missing' and 'responseStart not found' are auth problems, a
\* rejected request, 'responseEnd not found' and 'JSON parse failed' are not.
looksLikeAuthProblemAny(err) == TRUE

looksLikeAuthProblem(err) == err \in {"gpid/gsh missing", "responseStart not found"}

GetFailures == {"gpid/gsh missing", "timeout"}

PostFailures == {"responseStart not found", "JSON parse failed", "timeout"}

\* An invocation of syncOnce: where it is, whether it has re-logged in, its two
\* edupageGetMyDayPlan calls (today, tomorrow), the calls of an abandoned
\* Promise.all that are still running, and whether the request of edupageLogin
\* that is in flight was sent by the client that is still this.http; and how
\* many times it has called edupageLogin, how many Promise.all of plan calls
\* it has started, and the error of the first Promise.all while the re-login
\* it has led to is running.
FreeRun == [pc |-> "free", relogin |-> FALSE, plans |-> <<"idle", "idle">>, old |-> <<>>,
            cur |-> FALSE, logins |-> 0, rounds |-> 0, err |-> ""]

isFree(run) == run.pc \in {"free", "done"} /\ run.old = <<>>

InFlight(planPc) == planPc \in {"get", "post"}

\* The calls of a rejected Promise.all that go on running.
abandoned(plans) == SelectSeq(plans, InFlight)

\* The cookies a response of edupageLogin of invocation r sets: those of the
\* login page, and those of the session the POST of the credentials opens.
pageCookie(r) == <<r, "page">>

sessionCookie(r) == <<r, "session">>

\* axios-cookiejar-support stores the cookies of a response in the jar of the
\* client that sent the request, which is this.jar only while no
\* _resetSession() has replaced it.
storeInJar(run, cookie) == IF run.cur THEN mj_jar \cup {cookie} ELSE mj_jar

\* _resetSession() by invocation r, followed by the GET of the login page: the
\* session is dropped, this.jar and this.http are new, and the requests the
\* other invocations have in flight belong to clients that are gone.
resetSession(r, run) ==
    /\ mj_runs' = [q \in RunIds |->
                     IF q = r THEN [run EXCEPT !.pc = "loginGet", !.cur = TRUE,
                                               !.logins = @ + 1]
                              ELSE [mj_runs[q] EXCEPT !.cur = FALSE]]
    /\ session' = "null"
    /\ sessionCreatedAt' = 0
    /\ mj_jar' = {}

\* ensureSession(baseUrl), up to its first await: the cached session, or a
\* reset and the GET of the login page.
ensureSession(r, run) ==
    IF isSessionValid(session, sessionCreatedAt, now)
    THEN \* Promise.all([edupageGetMyDayPlan(today), edupageGetMyDayPlan(tomorrow)])
         /\ mj_runs' = [mj_runs EXCEPT ![r] = [run EXCEPT !.pc = "plans",
                                                           !.plans = <<"get", "get">>,
                                                           !.rounds = @ + 1]]
         /\ UNCHANGED <<session, sessionCreatedAt, mj_jar>>
    ELSE resetSession(r, run)

\* setInterval in onReady, after the initial syncOnce has returned.
timerAfterInitialSync == IF mj_timer = "null" THEN "active" ELSE mj_timer

\* The catch block at the end of syncOnce, or its last line: syncOnce returns
\* and its locals are gone; onReady sets the interval timer after the initial
\* one.
mjSyncEnds(r, run) ==
    /\ mj_runs' = [mj_runs EXCEPT ![r] = [run EXCEPT !.pc = "done", !.relogin = FALSE,
                                                     !.cur = FALSE, !.logins = 0,
                                                     !.rounds = 0, !.err = ""]]
    /\ mj_timer' = timerAfterInitialSync

\* syncOnce(baseUrl) is invoked, by onReady (once) or by the interval timer.
mjSyncOnce(r) ==
    /\ ~mj_started \/ mj_timer = "active"
    /\ isFree(mj_runs[r])
    /\ \A q \in RunIds : q < r => ~isFree(mj_runs[q])
    /\ mj_started' = TRUE
    /\ ensureSession(r, FreeRun)
    /\ UNCHANGED <<mj_timer, mj_unloaded>>
    /\ UNCHANGED <<rpcVars, now, boVars, wuVars, rfVars, ecVars, ctVars, eqVars, puVars>>

\* edupageLogin: the GET of the login page settles; with a csrftoken the POST
\* of the credentials is issued, by this.http.
mjLoginGetDone(r, ok) ==
    /\ mj_runs[r].pc = "loginGet"
    /\ mj_jar' = storeInJar(mj_runs[r], pageCookie(r))
    /\ IF ok
       THEN /\ mj_runs' = [mj_runs EXCEPT ![r].pc = "loginPost", ![r].cur = TRUE]
            /\ UNCHANGED mj_timer
       ELSE mjSyncEnds(r, mj_runs[r])
    /\ UNCHANGED <<session, sessionCreatedAt, mj_started, mj_unloaded>>
    /\ UNCHANGED <<rpcVars, now, boVars, wuVars, rfVars, ecVars, ctVars, eqVars, puVars>>

\* edupageLogin: the POST settles; ensureSession stores the session and
\* syncOnce starts the two plan calls.
mjLoginPostDone(r, ok) ==
    /\ mj_runs[r].pc = "loginPost"
    /\ IF ok
       THEN /\ session' = "session"
            /\ sessionCreatedAt' = now
            /\ mj_jar' = storeInJar(mj_runs[r], sessionCookie(r))
            /\ mj_runs' = [mj_runs EXCEPT ![r].pc = "plans", ![r].plans = <<"get", "get">>,
                                          ![r].rounds = @ + 1, ![r].err = ""]
            /\ UNCHANGED mj_timer
       ELSE /\ mjSyncEnds(r, mj_runs[r])
            /\ UNCHANGED <<session, sessionCreatedAt, mj_jar>>
    /\ UNCHANGED <<mj_started, mj_unloaded>>
    /\ UNCHANGED <<rpcVars, now, boVars, wuVars, rfVars, ecVars, ctVars, eqVars, puVars>>

\* One of the two plan calls throws: Promise.all rejects, the other call goes on.
\* The first time an auth problem leads to one re-login, else syncOnce ends.
planFails(r, k, err) ==
    LET run == mj_runs[r]
        rest == [run EXCEPT !.plans = <<"idle", "idle">>,
                            !.old = run.old \o abandoned([run.plans EXCEPT ![k] = "failed"]),
                            !.err = IF run.relogin THEN @ ELSE err]
    IN  IF ~run.relogin /\ looksLikeAuthProblem(err)
        THEN /\ resetSession(r, [rest EXCEPT !.relogin = TRUE])
             /\ UNCHANGED mj_timer
        ELSE /\ mjSyncEnds(r, rest)
             /\ UNCHANGED <<session, sessionCreatedAt, mj_jar>>

\* edupageGetMyDayPlan: the GET of the ttday page settles; with gpid and gsh
\* the POST to /gcall is issued.
mjPlanGetDone(r, k, res) ==
    /\ mj_runs[r].pc = "plans"
    /\ mj_runs[r].plans[k] = "get"
    /\ IF res = "ok"
       THEN /\ mj_runs' = [mj_runs EXCEPT ![r].plans[k] = "post"]
            /\ UNCHANGED <<session, sessionCreatedAt, mj_jar, mj_timer>>
       ELSE planFails(r, k, res)
    /\ UNCHANGED <<mj_started, mj_unloaded>>
    /\ UNCHANGED <<rpcVars, now, boVars, wuVars, rfVars, ecVars, ctVars, eqVars, puVars>>

\* edupageGetMyDayPlan: the POST settles; when both plans are there, syncOnce
\* writes the model and returns.
mjPlanPostDone(r, k, res) ==
    /\ mj_runs[r].pc = "plans"
    /\ mj_runs[r].plans[k] = "post"
    /\ IF res = "ok"
       THEN LET run == [mj_runs[r] EXCEPT !.plans[k] = "done"] IN
            IF run.plans = <<"done", "done">>
            THEN /\ mjSyncEnds(r, [run EXCEPT !.plans = <<"idle", "idle">>])
                 /\ UNCHANGED <<session, sessionCreatedAt, mj_jar>>
            ELSE /\ mj_runs' = [mj_runs EXCEPT ![r] = run]
                 /\ UNCHANGED <<session, sessionCreatedAt, mj_jar, mj_timer>>
       ELSE planFails(r, k, res)
    /\ UNCHANGED <<mj_started, mj_unloaded>>
    /\ UNCHANGED <<rpcVars, now, boVars, wuVars, rfVars, ecVars, ctVars, eqVars, puVars>>

\* A call of an abandoned Promise.all goes on: after its GET the POST (or the
\* end), after its POST the end.
mjAbandonedStep(r, i, posts) ==
    /\ i \in 1..Len(mj_runs[r].old)
    /\ LET old == mj_runs[r].old IN
       IF old[i] = "get" /\ posts
       THEN mj_runs' = [mj_runs EXCEPT ![r].old[i] = "post"]
       ELSE mj_runs' = [mj_runs EXCEPT ![r].old =
                            SubSeq(old, 1, i - 1) \o SubSeq(old, i + 1, Len(old))]
    /\ UNCHANGED <<session, sessionCreatedAt, mj_jar, mj_started, mj_timer, mj_unloaded>>
    /\ UNCHANGED <<rpcVars, now, boVars, wuVars, rfVars, ecVars, ctVars, eqVars, puVars>>

\* clearInterval(this.timer), when onReady has set it.
timerAfterUnload == IF mj_timer = "active" THEN "cleared" ELSE mj_timer

\* onUnload(callback): the timer is cleared if there is one, the session is
\* destroyed. The requests in flight and the continuations behind them stay.
mjUnloadKeepsCreatedAt ==
    /\ mj_started
    /\ ~mj_unloaded
    /\ mj_unloaded' = TRUE
    /\ mj_timer' = timerAfterUnload
    /\ session' = "null"
    /\ UNCHANGED <<sessionCreatedAt, mj_runs, mj_jar, mj_started>>
    /\ UNCHANGED <<rpcVars, now, boVars, wuVars, rfVars, ecVars, ctVars, eqVars, puVars>>

mjUnload ==
    /\ mj_started
    /\ ~mj_unloaded
    /\ mj_unloaded' = TRUE
    /\ mj_timer' = timerAfterUnload
    /\ session' = "null"
    /\ sessionCreatedAt' = 0
    /\ UNCHANGED <<mj_runs, mj_jar, mj_started>>
    /\ UNCHANGED <<rpcVars, now, boVars, wuVars, rfVars, ecVars, ctVars, eqVars, puVars>>

\* The steps of the clock that are followed, each of three hours: half of
\* sessionMaxAgeMs, so that a session is seen younger than, at, and past it.
MaxClock == 2

ClockStepMs == 3 * 60 * 60 * 1000

\* Date.now() advances by a step. Every request ends within its timeout of 20
\* seconds, so no request is in flight across a step of hours.
mjClock ==
    /\ now < StartMs + MaxClock * ClockStepMs
    /\ \A r \in RunIds : isFree(mj_runs[r])
    /\ now' = now + ClockStepMs
    /\ UNCHANGED <<rpcVars, boVars, wuVars, otherVars>>

MjInit ==
    /\ mj_runs = [r \in RunIds |-> FreeRun]
    /\ session = "null"
    /\ sessionCreatedAt = 0
    /\ mj_jar = {}
    /\ mj_started = FALSE
    /\ mj_timer = "null"
    /\ mj_unloaded = FALSE

MainNext ==
    \/ \E r \in RunIds : mjSyncOnce(r)
    \/ \E r \in RunIds, ok \in BOOLEAN : mjLoginGetDone(r, ok)
    \/ \E r \in RunIds, ok \in BOOLEAN : mjLoginPostDone(r, ok)
    \/ \E r \in RunIds, k \in 1..2, res \in {"ok"} \cup GetFailures : mjPlanGetDone(r, k, res)
    \/ \E r \in RunIds, k \in 1..2, res \in {"ok"} \cup PostFailures : mjPlanPostDone(r, k, res)
    \/ \E r \in RunIds, i \in 1..2, posts \in BOOLEAN : mjAbandonedStep(r, i, posts)
    \/ mjUnload

MainClockNext == MainNext \/ mjClock

(***************************************************************************)
(* The captcha-text adapter (part_006): onReady, onStateChange, syncOnce   *)
(***************************************************************************)

\* The writes to control.captchaText that are followed.
MaxWrites == 2

\* The values written to control.captchaText.
CaptchaValues == {"", "abc", " k7 "}

\* String(state.val || '').trim()
trim(val) == IF val = " k7 " THEN "k7" ELSE val

CaptchaTexts == {trim(val) : val \in CaptchaValues} \ {""}

\* The answers of login seen by this adapter.
CtLoginResponses ==
    {LoginBody("OK", "", NoSrc, ""),
     LoginBody("X", "1", RelSrc, ""),
     LoginBody("X", "1", NoSrc, ""),
     LoginBody("OK", "", AbsSrc, ""),
     LoginBody("X", "", NoSrc, "Wrong password"),
     [type |-> "error", err |-> "timeout"]}

\* A login answer that is taken for a captcha challenge whatever it says.
ctCaptchaSignalAlways(res) == TRUE

\* loginRes?.needCaptcha == '1' || loginRes?.captchaSrc
ctCaptchaSignal(res) == res.needCaptcha = "1" \/ res.captchaSrc # NoSrc

\* makeAbsoluteCaptchaUrl(captchaSrc)
makeAbsoluteCaptchaUrl(captchaSrc) ==
    IF captchaSrc = NoSrc THEN <<>>
    ELSE IF startsWith(captchaSrc, "http") THEN captchaSrc
    ELSE IF SubSeq(captchaSrc[1], 1, 1) = "/" THEN baseUrl \o captchaSrc
    ELSE baseUrl \o <<"/">> \o captchaSrc

\* A body of syncOnce: where it is, its captchaText argument, its requests.
IdleSync == [pc |-> "idle", captchaText |-> "", requests |-> <<>>]

Running == {r \in RunIds : ct_runs[r].pc # "idle"}

\* if (this._lastSyncRunning) return;
overlapGuardOff == FALSE

overlapGuard == lastSyncRunning

\* ctxt: captchaText ? captchaText : ''
ctxt(captchaText) == captchaText

\* if (!this._captchaPending) { ...ignore... }
noCaptchaPending == ~captchaPending

\* syncOnce({ captchaText }), up to its first request: it returns at once while
\* another body runs, else it takes the flag, clears meta.lastError and issues
\* getLoginData.
ctSyncOnce(captchaText) ==
    /\ Running # RunIds
    /\ IF overlapGuard
       THEN /\ ct_lastCall' = "returned"
            /\ UNCHANGED <<lastSyncRunning, ct_runs, ct_lastError, ct_loginRes>>
       ELSE LET r == CHOOSE q \in RunIds \ Running : \A p \in RunIds \ Running : q <= p
            IN  /\ ct_lastCall' = "started"
                /\ lastSyncRunning' = TRUE
                /\ ct_lastError' = ""
                /\ ct_loginRes' = NoLoginRes
                /\ ct_runs' = [ct_runs EXCEPT ![r] =
                                  [pc |-> "getData", captchaText |-> captchaText,
                                   requests |-> <<[op |-> "getLoginData"]>>]]

\* A syncOnce whose exit leaves _lastSyncRunning as it is.
ctSyncEndsKeepsFlag(r) ==
    /\ ct_runs' = [ct_runs EXCEPT ![r] = IdleSync]
    /\ UNCHANGED lastSyncRunning
    /\ ct_timer' = TRUE

\* The finally block of syncOnce; onReady sets the interval timer after the
\* initial syncOnce.
ctSyncEnds(r) ==
    /\ ct_runs' = [ct_runs EXCEPT ![r] = IdleSync]
    /\ lastSyncRunning' = FALSE
    /\ ct_timer' = TRUE

\* The catch block of syncOnce.
ctCatch(r, msg) ==
    /\ ct_lastError' = msg
    /\ ct_connection' = FALSE
    /\ ctSyncEnds(r)

\* syncOnce() is invoked by onReady (once) or by the interval timer.
ctTimerSync ==
    /\ ~ct_started \/ (ct_timer /\ ct_timerDue)
    /\ ct_started' = TRUE
    /\ ct_timerDue' = FALSE
    /\ ctSyncOnce("")
    /\ UNCHANGED <<captchaPending, ct_captchaUrl, ct_text, ct_events, ct_retry, ct_logins,
                   ct_timer, ct_connection, ct_writes>>
    /\ UNCHANGED <<rpcVars, now, boVars, wuVars, rfVars, ecVars, mjVars, eqVars, puVars>>

\* The interval of setInterval has passed.
ctTimerDue ==
    /\ ct_timer
    /\ ~ct_timerDue
    /\ ct_timerDue' = TRUE
    /\ UNCHANGED <<captchaPending, lastSyncRunning, ct_captchaUrl, ct_text, ct_events, ct_retry,
                   ct_runs, ct_logins, ct_started, ct_timer, ct_lastError, ct_connection,
                   ct_writes, ct_lastCall, ct_loginRes>>
    /\ UNCHANGED <<rpcVars, now, boVars, wuVars, rfVars, ecVars, mjVars, eqVars, puVars>>

\* Somebody writes control.captchaText; the adapter has subscribed to it.
ctWrite(val, ack) ==
    /\ ct_started
    /\ ct_writes < MaxWrites
    /\ ct_writes' = ct_writes + 1
    /\ ct_text' = [val |-> val, ack |-> ack]
    /\ ct_events' = Append(ct_events, [val |-> val, ack |-> ack])
    /\ ct_logins' = {}
    /\ UNCHANGED <<captchaPending, lastSyncRunning, ct_captchaUrl, ct_retry, ct_runs, ct_started,
                   ct_timer, ct_timerDue, ct_lastError, ct_connection, ct_lastCall, ct_loginRes>>
    /\ UNCHANGED <<rpcVars, now, boVars, wuVars, rfVars, ecVars, mjVars, eqVars, puVars>>

\* onStateChange(id, state) for control.captchaText, up to its await: an
\* acknowledged state is left alone, an empty text or one nobody waits for is
\* cleared, a text for a pending captcha is cleared and kept for the retry.
ctOnStateChange ==
    /\ ct_events # <<>>
    /\ ct_events' = Tail(ct_events)
    /\ LET state == Head(ct_events)
           txt == trim(state.val)
       IN  IF state.ack
           THEN UNCHANGED <<ct_text, ct_retry>>
           ELSE IF txt = "" \/ noCaptchaPending
           THEN /\ ct_text' = [val |-> "", ack |-> TRUE]
                /\ UNCHANGED ct_retry
           ELSE /\ ct_text' = [val |-> "", ack |-> TRUE]
                /\ ct_retry' = Append(ct_retry, txt)
    /\ UNCHANGED <<captchaPending, lastSyncRunning, ct_captchaUrl, ct_runs, ct_logins,
                   ct_started, ct_timer, ct_timerDue, ct_lastError, ct_connection, ct_writes,
                   ct_lastCall, ct_loginRes>>
    /\ UNCHANGED <<rpcVars, now, boVars, wuVars, rfVars, ecVars, mjVars, eqVars, puVars>>

\* onStateChange after its await: syncOnce({ captchaText: txt }).
ctRetry ==
    /\ ct_retry # <<>>
    /\ ct_retry' = Tail(ct_retry)
    /\ ctSyncOnce(Head(ct_retry))
    /\ UNCHANGED <<captchaPending, ct_captchaUrl, ct_text, ct_events, ct_logins, ct_started,
                   ct_timer, ct_timerDue, ct_connection, ct_writes>>
    /\ UNCHANGED <<rpcVars, now, boVars, wuVars, rfVars, ecVars, mjVars, eqVars, puVars>>

\* getLoginData settles (a failure gives md = null); getToken is issued.
ctGetLoginDataDone(r) ==
    /\ ct_runs[r].pc = "getData"
    /\ ct_runs' = [ct_runs EXCEPT ![r].pc = "token",
                                  ![r].requests = Append(@, [op |-> "getToken"])]
    /\ UNCHANGED <<captchaPending, lastSyncRunning, ct_captchaUrl, ct_text, ct_events, ct_retry,
                   ct_logins, ct_started, ct_timer, ct_timerDue, ct_lastError, ct_connection,
                   ct_writes, ct_lastCall, ct_loginRes>>
    /\ UNCHANGED <<rpcVars, now, boVars, wuVars, rfVars, ecVars, mjVars, eqVars, puVars>>

\* getToken settles: without a token the sync throws, with one login is issued.
ctGetTokenDone(r, tokRes) ==
    /\ ct_runs[r].pc = "token"
    /\ IF tokRes.type = "error"
       THEN ctCatch(r, tokRes.err) /\ UNCHANGED ct_logins
       ELSE IF tokRes.token = ""
       THEN /\ ctCatch(r, IF tokRes.errText # "" THEN tokRes.errText ELSE "No token")
            /\ UNCHANGED ct_logins
       ELSE /\ ct_runs' = [ct_runs EXCEPT
                 ![r].pc = "login",
                 ![r].requests = Append(@, [op |-> "login", userToken |-> tokRes.token,
                                            ctxt |-> ctxt(ct_runs[r].captchaText)])]
            /\ ct_logins' = ct_logins \cup {ctxt(ct_runs[r].captchaText)}
            /\ UNCHANGED <<lastSyncRunning, ct_timer, ct_lastError, ct_connection>>
    /\ UNCHANGED <<captchaPending, ct_captchaUrl, ct_text, ct_events, ct_retry, ct_started,
                   ct_timerDue, ct_writes, ct_lastCall, ct_loginRes>>
    /\ UNCHANGED <<rpcVars, now, boVars, wuVars, rfVars, ecVars, mjVars, eqVars, puVars>>

\* login settles: a captcha challenge (when no text was sent), a rejection, or
\* success, after which getGsh is issued.
ctLoginDone(r, loginRes) ==
    /\ ct_runs[r].pc = "login"
    /\ ct_loginRes' = loginRes
    /\ IF loginRes.type = "error"
       THEN ctCatch(r, loginRes.err) /\ UNCHANGED <<captchaPending, ct_captchaUrl>>
       ELSE IF ctCaptchaSignal(loginRes) /\ ct_runs[r].captchaText = ""
       THEN /\ captchaPending' = TRUE
            /\ ct_captchaUrl' = makeAbsoluteCaptchaUrl(loginRes.captchaSrc)
            /\ ct_connection' = FALSE
            /\ ctSyncEnds(r)
            /\ UNCHANGED ct_lastError
       ELSE IF loginRes.status # "OK"
       THEN /\ ctCatch(r, IF loginRes.errText # "" THEN loginRes.errText ELSE "Login failed")
            /\ UNCHANGED <<captchaPending, ct_captchaUrl>>
       ELSE /\ captchaPending' = FALSE
            /\ ct_captchaUrl' = <<>>
            /\ ct_runs' = [ct_runs EXCEPT ![r].pc = "gsh",
                                          ![r].requests = Append(@, [op |-> "getGsh"])]
            /\ UNCHANGED <<lastSyncRunning, ct_timer, ct_lastError, ct_connection>>
    /\ UNCHANGED <<ct_text, ct_events, ct_retry, ct_logins, ct_started, ct_timerDue, ct_writes,
                   ct_lastCall>>
    /\ UNCHANGED <<rpcVars, now, boVars, wuVars, rfVars, ecVars, mjVars, eqVars, puVars>>

\* getGsh settles (a failure is not fatal); currentttGetData is issued.
ctGetGshDone(r) ==
    /\ ct_runs[r].pc = "gsh"
    /\ ct_runs' = [ct_runs EXCEPT ![r].pc = "tt",
                                  ![r].requests = Append(@, [op |-> "currentttGetData"])]
    /\ UNCHANGED <<captchaPending, lastSyncRunning, ct_captchaUrl, ct_text, ct_events, ct_retry,
                   ct_logins, ct_started, ct_timer, ct_timerDue, ct_lastError, ct_connection,
                   ct_writes, ct_lastCall, ct_loginRes>>
    /\ UNCHANGED <<rpcVars, now, boVars, wuVars, rfVars, ecVars, mjVars, eqVars, puVars>>

\* currentttGetData settles: info.connection and meta.lastSync, or the catch block.
ctTtDone(r, ok) ==
    /\ ct_runs[r].pc = "tt"
    /\ IF ok
       THEN /\ ct_connection' = TRUE
            /\ ctSyncEnds(r)
            /\ UNCHANGED ct_lastError
       ELSE ctCatch(r, "timeout")
    /\ UNCHANGED <<captchaPending, ct_captchaUrl, ct_text, ct_events, ct_retry, ct_logins,
                   ct_started, ct_timerDue, ct_writes, ct_lastCall, ct_loginRes>>
    /\ UNCHANGED <<rpcVars, now, boVars, wuVars, rfVars, ecVars, mjVars, eqVars, puVars>>

CtInit ==
    /\ captchaPending = FALSE
    /\ lastSyncRunning = FALSE
    /\ ct_captchaUrl = <<>>
    /\ ct_text = [val |-> "", ack |-> TRUE]
    /\ ct_events = <<>>
    /\ ct_retry = <<>>
    /\ ct_runs = [r \in RunIds |-> IdleSync]
    /\ ct_logins = {}
    /\ ct_started = FALSE
    /\ ct_timer = FALSE
    /\ ct_timerDue = FALSE
    /\ ct_lastError = ""
    /\ ct_connection = FALSE
    /\ ct_writes = 0
    /\ ct_lastCall = "none"
    /\ ct_loginRes = NoLoginRes

\* What the adapter does by itself, once it is asked to.
ctProgress ==
    \/ ctOnStateChange
    \/ ctRetry
    \/ \E r \in RunIds : ctGetLoginDataDone(r)
    \/ \E r \in RunIds, tokRes \in TokenResponses : ctGetTokenDone(r, tokRes)
    \/ \E r \in RunIds, loginRes \in CtLoginResponses : ctLoginDone(r, loginRes)
    \/ \E r \in RunIds : ctGetGshDone(r)
    \/ \E r \in RunIds, ok \in BOOLEAN : ctTtDone(r, ok)

CaptchaNext ==
    \/ ctTimerSync
    \/ ctTimerDue
    \/ \E val \in CaptchaValues, ack \in BOOLEAN : ctWrite(val, ack)
    \/ ctProgress

(***************************************************************************)
(* The eq wrapper (part_000: buildEqBody, unwrapEqResponseText) and its    *)
(* caller edupagePost                                                      *)
(***************************************************************************)

\* The version ordinals a caller passes as eqav.
MaxOrdinal == 8

\* The data objects of a call and qs.stringify(dataObj).
DataObjs == {"{}", "{username}", "{a,b}"}

qsStringify(dataObj) ==
    IF dataObj = "{}" THEN ""
    ELSE IF dataObj = "{username}" THEN "username=u"
    ELSE "a=1&b=2"

\* The options of edupagePost; eqav, maxEqav and useEncryption go on to
\* buildEqBody, useEncryption to unwrapEqResponseText.
EqOptions ==
    [eqav : 0..MaxOrdinal, maxEqav : {5, 7}, useEncryption : BOOLEAN,
     responseType : {"text", "json"}]

\* The few of them that are followed next to rpc.
EqOptionsSmall ==
    [eqav : {1, 2}, maxEqav : {7}, useEncryption : BOOLEAN, responseType : {"text"}]

\* sha1hex(s), as a tagged token.
sha1hex(s) == "sha1(" \o joined(s) \o ")"

\* const useZip = (eqav % 2) === 1
eqUseZipNever(n) == FALSE

eqUseZip(n) == (n % 2) = 1

\* buildEqBody(formEncodedString, { eqav, maxEqav, useEncryption })
buildEqap(formEncodedString, n) ==
    IF eqUseZip(n)
    THEN <<"dz:", b64encode(deflateRawSync(formEncodedString))>>
    ELSE <<b64encode(formEncodedString)>>

buildEqBody(formEncodedString, opts) ==
    [eqap |-> buildEqap(formEncodedString, opts.eqav),
     eqacs |-> sha1hex(buildEqap(formEncodedString, opts.eqav)),
     eqaz |-> IF opts.useEncryption THEN "1" ELSE "0",
     eqav |-> opts.eqav,
     maxEqav |-> opts.maxEqav,
     useZip |-> eqUseZip(opts.eqav)]

\* unwrapEqResponseText(respText, { useEncryption })
unwrapEqResponseText(respText, useEncryption) ==
    IF ~useEncryption THEN joined(respText)
    ELSE IF ~startsWith(respText, "eqz:") THEN joined(respText)
    ELSE b64decodeToString(respText[2])

NoBody == [eqap |-> <<>>]

\* The answers that are followed next to rpc.
EnvelopeResponses ==
    {[type |-> "body", body |-> <<"eqwd:">>],
     [type |-> "body", body |-> <<"{token}">>],
     [type |-> "body", body |-> <<"eqz:", b64encode("{status}")>>],
     [type |-> "error", err |-> "timeout"]}

\* edupagePost(http, baseUrl, path, dataObj, options), up to its await: the
\* url, the form string, the body of buildEqBody, the POST.
edupagePost(dataObj, opts) ==
    /\ eq_pc \in {"idle", "returned", "failed"}
    /\ eq_pc' = "posted"
    /\ eq_opts' = opts
    /\ eq_form' = qsStringify(dataObj)
    /\ eq_query' = [eqav |-> opts.eqav, maxEqav |-> opts.maxEqav]
    /\ eq_body' = buildEqBody(qsStringify(dataObj), opts)
    /\ eq_resp' = NoResp
    /\ eq_text' = ""
    /\ eq_result' = NoValue
    /\ UNCHANGED <<rpcVars, now, boVars, wuVars, rfVars, ecVars, mjVars, ctVars, puVars>>

\* The POST settles: the text is unwrapped and returned, parsed first when
\* responseType is 'json'.
edupagePostSettles(resp) ==
    /\ eq_pc = "posted"
    /\ eq_resp' = resp
    /\ IF resp.type = "error"
       THEN /\ eq_pc' = "failed"
            /\ UNCHANGED <<eq_text, eq_result>>
       ELSE LET text == unwrapEqResponseText(resp.body, eq_opts.useEncryption) IN
            /\ eq_text' = text
            /\ IF eq_opts.responseType = "json"
               THEN IF JSONparses(text)
                    THEN eq_pc' = "returned" /\ eq_result' = JSONparse(text)
                    ELSE eq_pc' = "failed" /\ UNCHANGED eq_result
               ELSE eq_pc' = "returned" /\ eq_result' = <<text>>
    /\ UNCHANGED <<eq_opts, eq_form, eq_query, eq_body>>
    /\ UNCHANGED <<rpcVars, now, boVars, wuVars, rfVars, ecVars, mjVars, ctVars, puVars>>

EqInit ==
    /\ eq_pc = "idle"
    /\ eq_opts = [eqav |-> 1, maxEqav |-> 7, useEncryption |-> TRUE, responseType |-> "text"]
    /\ eq_form = ""
    /\ eq_query = [eqav |-> 1, maxEqav |-> 7]
    /\ eq_body = NoBody
    /\ eq_resp = NoResp
    /\ eq_text = ""
    /\ eq_result = NoValue

EqNext ==
    \/ \E dataObj \in DataObjs, opts \in EqOptions : edupagePost(dataObj, opts)
    \/ \E resp \in Responses : edupagePostSettles(resp)

\* The two builders of the envelope, one after the other: edupagePost on a few
\* inputs, then rpc on a few answers. They have no state in common.
EnvelopeNext ==
    \/ /\ rpc_pc = "idle"
       /\ \/ \E dataObj \in DataObjs, opts \in EqOptionsSmall : edupagePost(dataObj, opts)
          \/ \E resp \in EnvelopeResponses : edupagePostSettles(resp)
    \/ /\ eq_pc # "posted"
       /\ \/ \E rpcObj \in RpcObjs : RpcCall(rpcObj)
          \/ \E resp \in EnvelopeResponses : RpcAttempt(resp)
          \/ RpcExhausted

(***************************************************************************)
(* The pausedUntil adapter (part_008): onReady, syncOnce,                  *)
(* handleCaptchaBlock                                                      *)
(***************************************************************************)

PuLoginBody(status, needCaptcha, captchaSrc, errText, errCaptchaSrc) ==
    [type |-> "body", status |-> status, needCaptcha |-> needCaptcha,
     captchaSrc |-> captchaSrc, errText |-> errText, errCaptchaSrc |-> errCaptchaSrc]

\* The answers of login seen by this adapter.
PuLoginResponses ==
    {PuLoginBody("OK", "", NoSrc, "", NoSrc),
     PuLoginBody("X", "1", RelSrc, "", NoSrc),
     PuLoginBody("X", "1", NoSrc, "", NoSrc),
     PuLoginBody("X", "", NoSrc, "Verdächtige Aktivität", NoSrc),
     PuLoginBody("X", "", NoSrc, "Wrong password", AbsSrc),
     PuLoginBody("X", "", NoSrc, "Wrong password", NoSrc),
     [type |-> "error", err |-> "timeout"]}

\* /captcha|verdächt/i.test(String(loginRes?.err?.error_text || ''))
puCaptchaText(errText) == errText \in {"Verdächtige Aktivität", "CAPTCHA required"}

\* captchaSrc = loginRes?.captchaSrc || loginRes?.err?.captchaSrc
puCaptchaSrc(res) == IF res.captchaSrc # NoSrc THEN res.captchaSrc ELSE res.errCaptchaSrc

\* needCaptcha = loginRes?.needCaptcha === '1' || /captcha|verdächt/i.test(...)
puNeedCaptcha(res) == res.needCaptcha = "1" \/ puCaptchaText(res.errText)

\* url = captchaSrc ? (captchaSrc.startsWith('http') ? captchaSrc : baseUrl + captchaSrc) : ''
puCaptchaUrl(src) ==
    IF src = NoSrc THEN <<>>
    ELSE IF startsWith(src, "http") THEN src
    ELSE baseUrl \o src

\* if (this.pausedUntil && now < this.pausedUntil) return;
puPaused == pausedUntil # 0 /\ now < pausedUntil

\* syncOnce(), up to its first request: it returns at once while the adapter
\* is paused, else it clears meta.lastError and meta.captchaUrl and issues
\* getLoginData.
puSyncOnce ==
    IF puPaused
    THEN /\ pu_lastCall' = "skipped"
         /\ UNCHANGED <<pu_pc, pu_requests, pu_lastError, pu_captchaUrl, pu_loginRes>>
    ELSE /\ pu_lastCall' = "started"
         /\ pu_pc' = "getData"
         /\ pu_requests' = <<[op |-> "getLoginData"]>>
         /\ pu_lastError' = ""
         /\ pu_captchaUrl' = <<>>
         /\ pu_loginRes' = NoLoginRes

\* syncOnce returns or throws. onReady, which awaits the initial syncOnce,
\* goes on to setInterval.
puSyncEnds(timer) ==
    /\ pu_pc' = "idle"
    /\ pu_ready' = IF pu_ready = "syncing" THEN "done" ELSE pu_ready
    /\ pu_timer' = IF pu_ready = "syncing" THEN "active" ELSE timer

\* The catch block of syncOnce.
puCatch(msg) ==
    /\ pu_connection' = FALSE
    /\ pu_lastError' = msg
    /\ puSyncEnds(pu_timer)

\* onReady(): the initial syncOnce. A syncOnce that returns at the gate lets
\* onReady go on at once.
puOnReady ==
    /\ pu_ready = "new"
    /\ puSyncOnce
    /\ pu_ready' = "syncing"
    /\ UNCHANGED <<pausedUntil, pu_timer, pu_timerDue, pu_connection, pu_blocked>>
    /\ UNCHANGED <<rpcVars, now, boVars, wuVars, rfVars, ecVars, mjVars, ctVars, eqVars>>

\* The callback of setInterval: syncOnce().
puTimerSync ==
    /\ pu_timer = "active"
    /\ pu_timerDue
    /\ pu_pc = "idle"
    /\ pu_timerDue' = FALSE
    /\ puSyncOnce
    /\ UNCHANGED <<pausedUntil, pu_ready, pu_timer, pu_connection, pu_blocked>>
    /\ UNCHANGED <<rpcVars, now, boVars, wuVars, rfVars, ecVars, mjVars, ctVars, eqVars>>

\* The clock advances by the shortest interval; an interval timer that is set
\* comes due.
puTick ==
    /\ now < StartMs + MaxTicks * TickMs
    /\ now' = now + TickMs
    /\ pu_timerDue' = (pu_timer = "active")
    /\ UNCHANGED <<pausedUntil, pu_ready, pu_timer, pu_pc, pu_requests, pu_loginRes,
                   pu_lastCall, pu_captchaUrl, pu_lastError, pu_connection, pu_blocked>>
    /\ UNCHANGED <<rpcVars, boVars, wuVars, rfVars, ecVars, mjVars, ctVars, eqVars>>

\* getLoginData settles (a failure gives md = null); getToken is issued.
puGetLoginDataDone ==
    /\ pu_pc = "getData"
    /\ pu_pc' = "token"
    /\ pu_requests' = Append(pu_requests, [op |-> "getToken"])
    /\ UNCHANGED <<pausedUntil, pu_ready, pu_timer, pu_timerDue, pu_loginRes, pu_lastCall,
                   pu_captchaUrl, pu_lastError, pu_connection, pu_blocked>>
    /\ UNCHANGED <<rpcVars, now, boVars, wuVars, rfVars, ecVars, mjVars, ctVars, eqVars>>

\* getToken settles: without a token the sync throws, with one login is issued.
puGetTokenDone(tokRes) ==
    /\ pu_pc = "token"
    /\ IF tokRes.type = "error"
       THEN puCatch(tokRes.err) /\ UNCHANGED pu_requests
       ELSE IF tokRes.token = ""
       THEN /\ puCatch(IF tokRes.errText # "" THEN tokRes.errText ELSE "No token")
            /\ UNCHANGED pu_requests
       ELSE /\ pu_pc' = "login"
            /\ pu_requests' = Append(pu_requests, [op |-> "login", userToken |-> tokRes.token,
                                                   ctxt |-> ""])
            /\ UNCHANGED <<pu_ready, pu_timer, pu_lastError, pu_connection>>
    /\ UNCHANGED <<pausedUntil, pu_timerDue, pu_loginRes, pu_lastCall, pu_captchaUrl,
                   pu_blocked>>
    /\ UNCHANGED <<rpcVars, now, boVars, wuVars, rfVars, ecVars, mjVars, ctVars, eqVars>>

\* login settles: a captcha challenge starts handleCaptchaBlock, which sets
\* pausedUntil before its first await; a rejection throws; after a success
\* the warmup and the timetable call follow.
puLoginDone(loginRes) ==
    /\ pu_pc = "login"
    /\ pu_loginRes' = loginRes
    /\ IF loginRes.type = "error"
       THEN puCatch(loginRes.err) /\ UNCHANGED <<pausedUntil, pu_requests>>
       ELSE IF puNeedCaptcha(loginRes) \/ puCaptchaSrc(loginRes) # NoSrc
       THEN /\ pausedUntil' = now + 60 * 60 * 1000
            /\ pu_pc' = "block"
            /\ UNCHANGED <<pu_ready, pu_timer, pu_requests, pu_lastError, pu_connection>>
       ELSE IF loginRes.status # "OK"
       THEN /\ puCatch(IF loginRes.errText # "" THEN loginRes.errText ELSE "Login failed")
            /\ UNCHANGED <<pausedUntil, pu_requests>>
       ELSE /\ pu_pc' = "timetable"
            /\ pu_requests' = Append(pu_requests, [op |-> "warmUpTimetable"])
            /\ UNCHANGED <<pausedUntil, pu_ready, pu_timer, pu_lastError, pu_connection>>
    /\ UNCHANGED <<pu_timerDue, pu_lastCall, pu_captchaUrl, pu_blocked>>
    /\ UNCHANGED <<rpcVars, now, boVars, wuVars, rfVars, ecVars, mjVars, ctVars, eqVars>>

\* handleCaptchaBlock(url, reasonText) after its awaits: the states are
\* written, the interval timer is cleared if there is one, and syncOnce returns.
handleCaptchaBlock ==
    /\ pu_pc = "block"
    /\ pu_captchaUrl' = puCaptchaUrl(puCaptchaSrc(pu_loginRes))
    /\ pu_lastError' = IF pu_loginRes.errText # "" THEN pu_loginRes.errText
                       ELSE "Captcha required"
    /\ pu_connection' = FALSE
    /\ pu_blocked' = TRUE
    /\ pu_timerDue' = FALSE
    /\ puSyncEnds("null")
    /\ UNCHANGED <<pausedUntil, pu_requests, pu_loginRes, pu_lastCall>>
    /\ UNCHANGED <<rpcVars, now, boVars, wuVars, rfVars, ecVars, mjVars, ctVars, eqVars>>

\* The warmup, getGsh and currentttGetData settle: the model is written, or
\* the catch block runs.
puTimetableDone(ok) ==
    /\ pu_pc = "timetable"
    /\ IF ok
       THEN /\ pu_connection' = TRUE
            /\ puSyncEnds(pu_timer)
            /\ UNCHANGED pu_lastError
       ELSE puCatch("timeout")
    /\ UNCHANGED <<pausedUntil, pu_timerDue, pu_requests, pu_loginRes, pu_lastCall,
                   pu_captchaUrl, pu_blocked>>
    /\ UNCHANGED <<rpcVars, now, boVars, wuVars, rfVars, ecVars, mjVars, ctVars, eqVars>>

PuInit ==
    /\ pausedUntil = 0
    /\ pu_ready = "new"
    /\ pu_timer = "null"
    /\ pu_timerDue = FALSE
    /\ pu_pc = "idle"
    /\ pu_requests = <<>>
    /\ pu_loginRes = NoLoginRes
    /\ pu_lastCall = "none"
    /\ pu_captchaUrl = <<>>
    /\ pu_lastError = ""
    /\ pu_connection = FALSE
    /\ pu_blocked = FALSE

PausedNext ==
    \/ puOnReady
    \/ puTimerSync
    \/ puTick
    \/ puGetLoginDataDone
    \/ \E tokRes \in TokenResponses : puGetTokenDone(tokRes)
    \/ \E loginRes \in PuLoginResponses : puLoginDone(loginRes)
    \/ handleCaptchaBlock
    \/ puTimetableDone(TRUE)
    \/ puTimetableDone(FALSE)

\* The initial state of the components above, for the specifications of the others.
OtherInit == RfInit /\ EcInitDefault /\ MjInit /\ CtInit /\ EqInit /\ PuInit

\* One adapter configuration, fixed for the specifications of the other components.
WuInitDefault == WuInit /\ wu_cfg = [studentId |-> "1234", gsh |-> "abcd1234", terminate |-> TRUE]

Init == RpcInit /\ BoInit /\ WuInitDefault /\ OtherInit

SpecRpc == Init /\ [][RpcNext]_vars

SpecBackoff == Init /\ [][BackoffNext]_vars

SpecBackoffUnit == Init /\ [][BackoffUnitNext]_vars

SpecFollow == Init /\ [][FollowNext]_vars

SpecFollowFair == Init /\ [][FollowNext]_vars /\ WF_vars(rfSettles)

\* The client on each kind of http object.
ClientInit == RpcInit /\ BoInit /\ WuInitDefault /\ RfInit /\ EcInit /\ MjInit /\ CtInit /\ EqInit
                /\ PuInit

SpecClient == ClientInit /\ [][ClientNext]_vars

SpecMain == Init /\ [][MainNext]_vars

\* The session-caching adapter with Date.now() advancing.
SpecMainClock == Init /\ [][MainClockNext]_vars

SpecCaptcha == Init /\ [][CaptchaNext]_vars

SpecEq == Init /\ [][EqNext]_vars

SpecEnvelope == Init /\ [][EnvelopeNext]_vars

SpecPaused == Init /\ [][PausedNext]_vars

\* The adapter goes on with what it has begun: responses arrive, handlers run.
SpecCaptchaFair == Init /\ [][CaptchaNext]_vars /\ WF_vars(ctProgress)

\* The warmup-enabled adapter under each of its configurations.
WarmupInit == RpcInit /\ BoInit /\ WuInit /\ OtherInit

SpecWarmup == WarmupInit /\ [][WarmupNext]_vars

(***************************************************************************)
(* Properties of EdupageHttp.rpc                                           *)
(***************************************************************************)

AllEqwd(seq) == \A i \in 1..Len(seq) : seq[i] = "eqwd"

Ordinals(n) == [i \in 1..n |-> i]

\* The text the latest answer carries, read off the body itself.
PlainTextOfLast ==
    IF Len(rpc_lastResp.body) = 2
    THEN CHOOSE t \in Texts : rpc_lastResp.body = <<"eqz:", b64encode(t)>>
    ELSE rpc_lastResp.body[1]

\* C1: when the answers to ordinals 1..k-1 start with 'eqwd:' and the answer to
\* ordinal k is JSON-parsable (k <= maxEqav), rpc has returned the parsed JSON of
\* attempt k, and exactly k POSTs were issued, with eqav = 1, 2, ..., k in order;
\* once rpc has returned, no further POST of that call is issued.
C1_EqwdThenJsonReturns ==
    /\ [](\A k \in 1..maxEqav :
            (/\ Len(rpc_resps) = k
             /\ AllEqwd(SubSeq(rpc_resps, 1, k - 1))
             /\ rpc_resps[k] = "json")
            => /\ rpc_pc = "returned"
               /\ rpc_result = JSONparse(PlainTextOfLast)
               /\ rpc_posts = Ordinals(k))
    /\ [][rpc_pc = "returned" /\ rpc_pc' = "returned" => rpc_posts' = rpc_posts]_vars

\* The spec's own case: 'eqwd:' for ordinals 1..3, an eqz-wrapped JSON at ordinal 4.
C1_Witness ==
    /\ rpc_pc = "returned"
    /\ rpc_resps = <<"eqwd", "eqwd", "eqwd", "json">>
    /\ rpc_lastResp.body = <<"eqz:", b64encode("{token}")>>
    /\ rpc_posts = <<1, 2, 3, 4>>

\* C2: when every answer starts with 'eqwd:', rpc never returns a value, issues
\* exactly maxEqav POSTs and then fails with the exhaustion error, which is
\* neither a transport error nor a parse error.
C2_AllEqwdExhausts ==
    AllEqwd(rpc_resps) /\ rpc_pc # "idle" =>
        /\ rpc_pc # "returned"
        /\ rpc_result = NoValue
        /\ rpc_posts = Ordinals(Len(rpc_resps))
        /\ Len(rpc_posts) <= maxEqav
        /\ rpc_pc = "failed" =>
              /\ Len(rpc_posts) = maxEqav
              /\ rpc_thrown = UnknownError
              /\ rpc_thrown.kind \notin {"transport", "parse"}

C2_Witness ==
    /\ rpc_pc = "failed"
    /\ Len(rpc_resps) = maxEqav
    /\ AllEqwd(rpc_resps)

\* C3: a transport-level error is not retried: once the POST of attempt n has
\* failed, rpc has thrown that error and no POST n+1 follows.
C3_TransportErrorPropagates ==
    \A n \in 1..Len(rpc_resps) :
        rpc_resps[n] = "transport" =>
            /\ Len(rpc_posts) = n
            /\ rpc_result = NoValue
            /\ rpc_pc = "failed" => rpc_thrown.kind = "transport" /\ rpc_thrown.at = n

\* C4: only 'eqwd:' causes another attempt: once the answer of attempt n is
\* neither 'eqwd:' nor JSON-parsable, rpc has failed with the parse error of
\* attempt n and no POST n+1 follows.
C4_ParseErrorIsTerminal ==
    \A n \in 1..Len(rpc_resps) :
        rpc_resps[n] = "unparsable" =>
            /\ Len(rpc_posts) = n
            /\ rpc_result = NoValue
            /\ rpc_pc = "failed" => rpc_thrown = ParseError(n)

(***************************************************************************)
(* Properties of the backoff adapter                                       *)
(***************************************************************************)

\* A step in which syncOnce is invoked (by onReady or by the timer).
Invoked == (~bo_started /\ bo_started') \/ (bo_timerDue /\ ~bo_timerDue')

CaptchaReason == "Captcha required by EduPage"

Minutes(n) == n * 60 * 1000

\* C5: a syncOnce invoked with now < nextAllowedSyncTs returns without issuing a
\* request and leaves failCount, nextAllowedSyncTs, lastFailReason, meta.lastError,
\* meta.captchaSrc and info.connection unchanged.
C5_GateHasNoEffect ==
    [][(Invoked /\ now < nextAllowedSyncTs) =>
          /\ bo_requests' = <<>>
          /\ bo_pc' = "idle"
          /\ UNCHANGED <<failCount, nextAllowedSyncTs, lastFailReason,
                         st_lastError, st_captchaSrc, st_connection>>]_vars

C5_Witness ==
    /\ bo_outcome = "skipped"
    /\ now < nextAllowedSyncTs
    /\ failCount >= 1
    /\ st_lastError # ""

C7_BackoffDelay ==
    (bo_sched # NoSched /\ nextAllowedSyncTs # 0) =>
        LET delay == nextAllowedSyncTs - bo_sched.at
            computed == IF 5 * 2 ^ (failCount - 1) <= 360
                        THEN Minutes(5 * 2 ^ (failCount - 1))
                        ELSE Minutes(360)
        IN  /\ failCount = IF bo_sched.prevFailCount < 10
                           THEN bo_sched.prevFailCount + 1 ELSE 10
            /\ delay = IF computed >= bo_sched.suggestedMs
                       THEN computed ELSE bo_sched.suggestedMs
            /\ computed <= Minutes(6 * 60)
            /\ bo_sched.suggestedMs = 0 =>
                 /\ failCount = 1 => delay = Minutes(5)
                 /\ failCount = 2 => delay = Minutes(10)
                 /\ failCount = 3 => delay = Minutes(20)
                 /\ failCount = 4 => delay = Minutes(40)
                 /\ delay <= Minutes(6 * 60)

\* The saturated counter: the eleventh failure in a row, capped at 6 hours.
C7_Witness ==
    /\ failCount = 10
    /\ bo_sched.prevFailCount = 10
    /\ bo_sched.suggestedMs = 0
    /\ nextAllowedSyncTs = bo_sched.at + Minutes(360)

WuFetched ==
    \E i \in 1..Len(wu_requests) : wu_requests[i].op \in {"GET", "currentttGetData"}

\* C10: when the login answer carries a captcha signal or its status is not
\* 'OK', that sync issues no warmup fetch and no currentttGetData; these are
\* issued only after a login that answered 'OK' without any captcha signal.
C10_CaptchaAndRejectionAreTerminal ==
    LET signal ==
            /\ wu_loginRes.type = "body"
            /\ \/ wu_loginRes.needCaptcha = "1"
               \/ wu_loginRes.captchaSrc # <<>>
               \/ wu_loginRes.errText \in {"Verdächtige Aktivität",
                                           "Bitte Text aus dem Bild eingeben",
                                           "CAPTCHA required"}
        rejected == wu_loginRes.type = "body" /\ wu_loginRes.status # "OK"
    IN  /\ (signal \/ rejected) => ~WuFetched
        /\ WuFetched =>
             /\ wu_loginRes.type = "body" /\ wu_loginRes.status = "OK" /\ ~signal
             /\ Len(wu_requests) >= 4
             /\ wu_requests[3].op = "login"
             /\ \A i \in 1..3 : wu_requests[i].op \notin {"GET", "currentttGetData"}

\* A sync ended by a challenge whose answer nevertheless said 'OK'.
C10_Witness ==
    /\ wu_outcome = "captcha"
    /\ wu_loginRes.status = "OK"
    /\ Len(wu_requests) = 3
    /\ wu_requests[3].op = "login"

\* Challenge language in err.error_text, in the letter cases the portal uses.
ChallengeLanguage == {"Verdächtige Aktivität", "Bitte Text aus dem Bild eingeben",
                      "CAPTCHA required"}

\* C11: a login answer whose err.error_text carries challenge language is handled
\* as a captcha challenge (meta.captchaRequired = true, pause of 60 minutes), also
\* when needCaptcha and captchaSrc are absent and whatever its status; the sync
\* issues nothing more and meta.lastError is not written, so the answer never
\* ends as a 'Login failed' error.
C11_ChallengeTextBeforeStatus ==
    [][(/\ wu_pc = "login"
        /\ wu_loginRes'.type = "body"
        /\ wu_loginRes'.errText \in ChallengeLanguage) =>
          /\ wu_outcome' = "captcha"
          /\ wu_pc' = "idle"
          /\ wu_captchaRequired' = TRUE
          /\ captchaBackoffUntil' = now + Minutes(60)
          /\ wu_requests' = wu_requests
          /\ wu_lastError' = ""
          /\ wu_connection' = wu_connection]_vars

\* A rejected login whose only challenge signal is the text 'CAPTCHA required'.
C11_Witness ==
    /\ wu_outcome = "captcha"
    /\ wu_loginRes = LoginBody("X", "", NoSrc, "CAPTCHA required")
    /\ wu_captchaRequired
    /\ wu_captchaUrl = <<>>
    /\ captchaBackoffUntil = now + Minutes(60)

\* The positions of the login calls among the requests of the latest syncOnce.
LoginCalls == {i \in 1..Len(bo_requests) : bo_requests[i].op = "login"}

\* C12: in every syncOnce the login call is issued only after getToken has
\* answered with a token, directly after the getToken call, and it carries
\* exactly that token; when the answer of getToken has no token, no login call
\* is issued and the sync ends in failure, with the answer's error text or
\* 'No token' as the error.
C12_LoginOnlyWithToken ==
    /\ \A i \in LoginCalls :
          /\ i = 3
          /\ bo_requests[2].op = "getToken"
          /\ bo_tokRes.type = "body"
          /\ bo_tokRes.token # ""
          /\ bo_requests[i].userToken = bo_tokRes.token
    /\ (bo_tokRes.type = "body" /\ bo_tokRes.token = "") =>
          /\ LoginCalls = {}
          /\ bo_pc = "idle"
          /\ bo_outcome = "thrown"
          /\ ~st_connection
          /\ st_lastError = IF bo_tokRes.errText = "" THEN "No token" ELSE bo_tokRes.errText

\* A login in flight that carries the second token.
C12_Witness ==
    /\ bo_pc = "login"
    /\ bo_tokRes.type = "body"
    /\ bo_tokRes.token = "T2"
    /\ bo_requests[3] = [op |-> "login", userToken |-> "T2", tu |-> "md"]

(***************************************************************************)
(* Properties of EdupageHttp._requestFollow                                *)
(***************************************************************************)

\* A step in which the answer to a request arrives and the next hop is issued.
NextHop == rf_pc = "request" /\ rf_count' = rf_count + 1

RedirectStatuses == {301, 302, 303, 307, 308}

\* C13: on a 303 the next hop is a GET without body; on a 302 it is a GET
\* without body when the current method is not GET, and keeps method and body
\* otherwise; on 301, 307 and 308 it keeps method and body; a chain that has
\* been downgraded to GET stays GET without body on all later hops.  The next
\* hop goes to the Location of the answer.
C13_RedirectVerb ==
    [][NextHop =>
          /\ rf_res'.status = 303 =>
                rf_req'.method = "get" /\ rf_req'.data = "undefined"
          /\ (rf_res'.status = 302 /\ rf_req.method # "get") =>
                rf_req'.method = "get" /\ rf_req'.data = "undefined"
          /\ (rf_res'.status = 302 /\ rf_req.method = "get") =>
                rf_req'.method = "get" /\ rf_req'.data = rf_req.data
          /\ rf_res'.status \in {301, 307, 308} =>
                rf_req'.method = rf_req.method /\ rf_req'.data = rf_req.data
          /\ (rf_entry # "get" /\ rf_req.method = "get") =>
                rf_req'.method = "get" /\ rf_req'.data = "undefined"
          /\ rf_res'.location = PathLocation => rf_req'.url = <<"/", "next">>]_vars

\* A form POST that was downgraded and then met a 307: the third request is a GET.
C13_Witness ==
    /\ rf_entry = "postForm"
    /\ rf_pc = "request"
    /\ rf_count = 3
    /\ rf_res.status = 307
    /\ rf_req.method = "get"
    /\ rf_req.data = "undefined"
    /\ rf_req.url = <<"/", "next">>

\* C14: one call hands at most 8 requests to the HTTP client and ends; a
\* redirect with a Location is never returned as the result, and when the
\* answer to the eighth request is again such a redirect the call fails with
\* 'Too many redirects'.
C14_HopCap ==
    /\ [](/\ rf_count <= 8
          /\ rf_pc = "returned" =>
                /\ rf_result = rf_res
                /\ ~(rf_res.status \in RedirectStatuses /\ rf_res.location # <<>>)
          /\ (/\ rf_pc # "request"
              /\ rf_count = 8
              /\ rf_res.type = "response"
              /\ rf_res.status \in RedirectStatuses
              /\ rf_res.location # <<>>) =>
                rf_pc = "failed" /\ rf_error = [kind |-> "Too many redirects"]
          /\ rf_error = [kind |-> "Too many redirects"] => rf_count = 8)
    /\ (rf_pc = "request" ~> rf_pc \in {"returned", "failed"})

C14_Witness ==
    /\ rf_pc = "failed"
    /\ rf_count = 8
    /\ rf_error = [kind |-> "Too many redirects"]
    /\ rf_res.status = 302

\* C15: the cookies set by the answer of a hop are in the jar before the request
\* of the next hop is issued, and that request carries the whole jar, so after a
\* chain of redirects that each set a cookie of their own the latest request
\* carries all of them; every request has maxRedirects = 0.
C15_CookiesAcrossHops ==
    /\ [](rf_req # NoReq =>
            /\ rf_req.maxRedirects = 0
            /\ rf_pc = "request" => rf_req.cookies = jar)
    /\ [][NextHop =>
            /\ rf_res'.setCookie \subseteq jar'
            /\ jar \subseteq jar'
            /\ jar' \subseteq rf_req'.cookies]_vars

\* Two redirects, each setting a cookie of its own; the third request carries both.
C15_Witness ==
    /\ rf_pc = "request"
    /\ rf_count = 3
    /\ rf_req.cookies = {1, 2}

\* C16: a request that fails (network error, timeout, status outside 200..399)
\* ends the call with that error and without a result; nothing is requested
\* after a failure, and a further request is issued only to follow a redirect.
C16_NoRetry ==
    /\ [](/\ (rf_res.type = "error" /\ rf_pc # "request") =>
                /\ rf_pc = "failed"
                /\ rf_error = [kind |-> rf_res.err]
                /\ rf_result = NoRes
          /\ (rf_res.type = "response" /\ rf_pc # "request"
                /\ (rf_res.status < 200 \/ rf_res.status > 399)) =>
                /\ rf_pc = "failed"
                /\ rf_error = [kind |-> "status", status |-> rf_res.status]
                /\ rf_result = NoRes)
    /\ [][/\ rf_pc = "failed" => rf_count' = rf_count /\ rf_req' = rf_req
          /\ NextHop => rf_res'.type = "response"
                          /\ rf_res'.status \in RedirectStatuses
                          /\ rf_res'.location # <<>>]_vars

\* The second request of a JSON POST, a followed 307, is answered with 404.
C16_Witness ==
    /\ rf_pc = "failed"
    /\ rf_entry = "postJson"
    /\ rf_count = 2
    /\ rf_res.type = "response"
    /\ rf_res.status = 404
    /\ rf_req.method = "post"

(***************************************************************************)
(* Properties of EdupageClient (edusrs variant)                            *)
(***************************************************************************)

\* The jar holds a cookie named edusrs, for the host or for the parent domain.
EdusrsStored == \E c \in ec_jar : c.key = "edusrs" /\ c.domain \in {"host", "parent"}

EcEnded == ec_pc \in {"returned", "failed"}

\* C17: warmUpTimetable succeeds if and only if, after its three fetches, a
\* cookie named edusrs is stored for the host or for the parent domain, however
\* the fetches ended; when it fails, the error names the cookie edusrs.
C17_WarmupPassFail ==
    (ec_call = "warmUpTimetable" /\ EcEnded) =>
        /\ Len(ec_fetches) = 3
        /\ ec_pc = "returned" <=> EdusrsStored
        /\ ec_pc = "failed" <=> ~EdusrsStored
        /\ ec_pc = "failed" => ec_error = [kind |-> "Missing cookie", cookie |-> "edusrs"]
        /\ ec_pc = "returned" => ec_error = NoErr

\* Success although all three fetches were rejected: the cookie of the parent
\* domain is in the jar.
C17_Witness ==
    /\ ec_call = "warmUpTimetable"
    /\ ec_pc = "returned"
    /\ ec_fetches = <<"rejected", "rejected", "rejected">>
    /\ [key |-> "edusrs", domain |-> "parent"] \in ec_jar
    /\ [key |-> "edusrs", domain |-> "host"] \notin ec_jar

FixedOrder == <<"/", "/dashboard/", "/dashboard/eb.php?mode=timetable">>

\* C18: the fetches of warmUpTimetable are '/', '/dashboard/' and
\* '/dashboard/eb.php?mode=timetable' in this order, one at a time, each started
\* when the one before has ended (also when it was rejected); each but the first
\* carries the URL of the page before as Referer; the call ends only after the
\* third fetch has ended.
C18_WarmupOrder ==
    /\ \A i \in 1..Len(ec_requests) :
          i <= 3 =>
            /\ ec_requests[i].op = "GET"
            /\ ec_requests[i].path = FixedOrder[i]
            /\ i = 1 => ec_requests[i].referer = <<>>
            /\ i > 1 => ec_requests[i].referer =
                           <<"http", "s://school.example", ec_requests[i - 1].path>>
    /\ ec_pc = "warmup" => Len(ec_requests) = Len(ec_fetches) + 1
    /\ Len(ec_fetches) <= 3
    /\ (EcEnded \/ ec_pc = "post") => Len(ec_fetches) = 3 /\ Len(ec_requests) >= 3

\* The third fetch in flight after a rejected first one.
C18_Witness ==
    /\ ec_pc = "warmup"
    /\ ec_fetches = <<"rejected", "ok">>
    /\ Len(ec_requests) = 3
    /\ ec_requests[3].referer = <<"http", "s://school.example", "/dashboard/">>

PostCalls == {i \in 1..Len(ec_requests) : ec_requests[i].op = "POST"}

\* C19: currentttGetData issues the POST to the timetable endpoint only after
\* its own warmUpTimetable has found the cookie; when the warmup fails for the
\* missing cookie, the call fails without a POST and without a second warmup.
C19_PostOnlyAfterWarmup ==
    /\ \A i \in PostCalls :
          /\ i = 4
          /\ ec_call = "currentttGetData"
          /\ Len(ec_fetches) = 3
          /\ EdusrsStored
          /\ ec_requests[i].path = "/timetable/server/currenttt.js?__func=curentttGetData"
    /\ (EcEnded /\ ~EdusrsStored) =>
          /\ ec_pc = "failed"
          /\ ec_error = [kind |-> "Missing cookie", cookie |-> "edusrs"]
          /\ PostCalls = {}
          /\ Len(ec_requests) = 3
    /\ Len(ec_requests) <= 4

\* A currentttGetData that returned the answer of its POST.
C19_Witness ==
    /\ ec_call = "currentttGetData"
    /\ ec_pc = "returned"
    /\ Len(ec_requests) = 4
    /\ ec_requests[4].op = "POST"
    /\ ec_result \in TtResponses

(***************************************************************************)
(* Properties of the session-caching adapter (main.js)                     *)
(***************************************************************************)

\* The edupageGetMyDayPlan calls that have a request in flight: those of a
\* pending Promise.all and those of an abandoned one.
PlansInFlight ==
    {<<r, k>> \in RunIds \X (1..2) : mj_runs[r].plans[k] \in {"get", "post"}}

AbandonedInFlight ==
    {<<r, i>> \in RunIds \X (1..2) : i <= Len(mj_runs[r].old)}

\* The logins that have a request in flight, and the invocations of syncOnce
\* that have not returned.
LoginsInFlight == {r \in RunIds : mj_runs[r].pc \in {"loginGet", "loginPost"}}

SyncsInFlight == {r \in RunIds : mj_runs[r].pc \in {"loginGet", "loginPost", "plans"}}

\* C20: at every moment at most one authentication or protected-call sequence
\* is in flight on the shared session and cookie jar: no two
\* edupageGetMyDayPlan calls, no two logins and no two syncOnce runs overlap.
C20_OneSequenceInFlight ==
    /\ Cardinality(PlansInFlight) + Cardinality(AbandonedInFlight) <= 1
    /\ Cardinality(LoginsInFlight) <= 1
    /\ Cardinality(SyncsInFlight) <= 1
    /\ Cardinality(PlansInFlight) + Cardinality(AbandonedInFlight)
         + Cardinality(LoginsInFlight) <= 1

\* ensureSession of invocation r does not reuse the cached session: it goes on
\* to the login page.
StartsLogin(r) == mj_runs[r].pc # "loginGet" /\ mj_runs'[r].pc = "loginGet"

\* edupageLogin of invocation r sends the POST of the credentials.
PostsCredentials(r) == mj_runs[r].pc = "loginGet" /\ mj_runs'[r].pc = "loginPost"

\* The cookies in this.jar that belong to the session of a login other than r.
SessionCookiesOfOthers(j, r) == {c \in j : c[2] = "session" /\ c[1] # r}

\* C21: whenever ensureSession does not reuse the cached session it first
\* discards the old jar and client and only then logs in; the login never runs
\* on a jar that holds the cookies of a session other than the one it opens;
\* the cached session is null with sessionCreatedAt 0, or the result of one
\* login with the time of that login.
C21_LoginOnFreshJar ==
    [][\A r \in RunIds :
         /\ StartsLogin(r) =>
              mj_jar' = {} /\ session' = "null" /\ sessionCreatedAt' = 0
         /\ PostsCredentials(r) => SessionCookiesOfOthers(mj_jar', r) = {}
         /\ session' = "null" <=> sessionCreatedAt' = 0]_vars

(***************************************************************************)
(* Properties of the error paths of the two adapters                       *)
(***************************************************************************)

\* The latest syncOnce of the warmup adapter threw because warmUpTimetable
\* found no edusrs cookie.
SessionIncomplete ==
    /\ wu_pc = "idle"
    /\ wu_outcome = "thrown"
    /\ wu_lastError = "Missing cookie \"edusrs\" after warmup"

\* C22: after a syncOnce of the warmup adapter that failed because the cookie
\* was missing after warmup, the next syncOnce the timer starts is skipped at
\* the gate and does not repeat login and warmup.
C22_MissingCookieFeedsBackoff ==
    [][(SessionIncomplete /\ wu_outcome' # wu_outcome) =>
          /\ wu_outcome' = "skipped"
          /\ wu_requests' = <<>>
          /\ wu_pc' = "idle"]_vars

\* A syncOnce of the backoff adapter fails with a transport error: the call of
\* getToken or of login it awaits rejects.
TransportFailure ==
    \/ bo_pc = "token" /\ bo_tokRes'.type = "error"
    \/ bo_pc = "login" /\ bo_loginRes'.type = "error"

\* C23: in the backoff adapter a syncOnce that fails with a transport error (a
\* network error in getToken, for one) throws that error and leaves failCount,
\* nextAllowedSyncTs and lastFailReason as they were.
C23_TransportErrorsLeaveBackoff ==
    [][TransportFailure =>
          /\ bo_outcome' = "thrown"
          /\ failCount' = failCount
          /\ nextAllowedSyncTs' = nextAllowedSyncTs
          /\ lastFailReason' = lastFailReason]_vars

(***************************************************************************)
(* Properties of the captcha-text adapter (part_006)                       *)
(***************************************************************************)

\* The latest write of control.captchaText waits for onStateChange: a value
\* that is not acknowledged and reads txt, while a captcha is pending.
Resupplied(txt) ==
    /\ captchaPending
    /\ ct_events # <<>>
    /\ ~ct_events[Len(ct_events)].ack
    /\ trim(ct_events[Len(ct_events)].val) = txt

\* onStateChange handles a value that is not acknowledged while no captcha is
\* pending.
HandledWithoutCaptcha ==
    /\ ct_events # <<>>
    /\ ct_events' = Tail(ct_events)
    /\ ~Head(ct_events).ack
    /\ ~captchaPending

\* C24: whenever a captcha is pending and a non-empty value that is not
\* acknowledged is written to control.captchaText, a login call with exactly
\* that text as ctxt is issued afterwards; a value written while no captcha is
\* pending starts no login attempt and is cleared.
C24_CaptchaTextReachesLogin ==
    /\ \A txt \in CaptchaTexts : Resupplied(txt) ~> (txt \in ct_logins)
    /\ [][HandledWithoutCaptcha =>
            /\ ct_text' = [val |-> "", ack |-> TRUE]
            /\ ct_retry' = ct_retry
            /\ ct_runs' = ct_runs
            /\ ct_logins' = ct_logins]_vars

\* syncOnce is called: by onReady, by the interval timer, or by onStateChange
\* with a captcha text.
SyncOnceCalled ==
    \/ ~ct_started /\ ct_started'
    \/ ct_timerDue /\ ~ct_timerDue'
    \/ Len(ct_retry') < Len(ct_retry)

\* C30: at most one body of syncOnce is executing at any time; a syncOnce that
\* is called (by the timer or for a captcha text) while another one is running
\* returns at once, issues no request and changes no state.
C30_OneSyncAtATime ==
    /\ [](Cardinality(Running) <= 1)
    /\ [][(SyncOnceCalled /\ Running # {}) =>
            /\ ct_lastCall' = "returned"
            /\ ct_runs' = ct_runs
            /\ UNCHANGED <<captchaPending, lastSyncRunning, ct_captchaUrl, ct_text, ct_logins,
                           ct_lastError, ct_connection>>]_vars

\* A call for a captcha text has returned at once while the body the timer
\* started is awaiting its login call.
C30_Witness ==
    /\ ct_lastCall = "returned"
    /\ ct_text = [val |-> "", ack |-> TRUE]
    /\ ct_writes = 1
    /\ ct_events = <<>>
    /\ ct_retry = <<>>
    /\ captchaPending
    /\ \E r \in RunIds : ct_runs[r].pc = "login" /\ ct_runs[r].captchaText = ""

(***************************************************************************)
(* Properties of the eq envelope (EdupageHttp.rpc, buildEqBody,            *)
(* unwrapEqResponseText)                                                   *)
(***************************************************************************)

DigestOf(eqap) ==
    IF eqap[1] = "dz:" THEN "sha1(dz:" \o eqap[2] \o ")" ELSE "sha1(" \o eqap[1] \o ")"

\* C26: in every attempt, of buildEqBody and of rpc, eqacs is the hash of
\* exactly the eqap sent in that attempt, with the 'dz:' prefix when there is
\* one; it is computed from the encoded payload and not taken from the caller
\* or from an earlier attempt.
C26_DigestOfEncodedPayload ==
    /\ \A n \in 1..Len(rpc_requests) :
         rpc_requests[n].eqacs = DigestOf(rpc_requests[n].eqap)
    /\ eq_body # NoBody => eq_body.eqacs = DigestOf(eq_body.eqap)

\* edupagePost has sent a compressed payload, and rpc then a compressed and
\* a plain one.
C26_Witness ==
    /\ eq_pc = "returned"
    /\ eq_body.eqap = <<"dz:", "b64(deflate(username=u))">>
    /\ eq_body.eqacs = "sha1(dz:b64(deflate(username=u)))"
    /\ Len(rpc_requests) = 2
    /\ rpc_requests[1].eqacs = "sha1(dz:b64(deflate(rpcparams=%7B%7D)))"
    /\ rpc_requests[2].eqacs = "sha1(b64(rpcparams=%7B%7D))"

\* An odd number.
Odd(n) == \E k \in 0..n : n = 2 * k + 1

\* C27: for every odd eqav the eqap of buildEqBody is 'dz:' followed by the
\* base64 of the raw-deflated input; for every even eqav it has no 'dz:' prefix
\* and is the plain base64 of the input string.
C27_ZipOnOddOrdinals ==
    eq_body # NoBody =>
        /\ eq_body.eqav = eq_opts.eqav
        /\ Odd(eq_opts.eqav) =>
             eq_body.eqap = <<"dz:", "b64(deflate(" \o eq_form \o "))">>
        /\ ~Odd(eq_opts.eqav) =>
             eq_body.eqap = <<"b64(" \o eq_form \o ")">>

\* buildEqBody was called with the form string 'a=1&b=2' and eqav = 4.
C27_Witness ==
    /\ eq_pc = "posted"
    /\ eq_opts.eqav = 4
    /\ eq_form = "a=1&b=2"
    /\ eq_body.eqap = <<"b64(a=1&b=2)">>
    /\ ~eq_body.useZip

\* What a response text decodes to: the base64-decoding of what follows
\* 'eqz:', or the text itself.
Decoded(body) ==
    IF body[1] = "eqz:"
    THEN CHOOSE t \in Texts : body[2] = "b64(" \o t \o ")"
    ELSE body[1]

\* C28: for every response text, unwrapEqResponseText and decodeEqzIfNeeded
\* return the base64-decoding of the remainder when the text starts with
\* 'eqz:', and the text unchanged otherwise, whatever the options of the
\* caller are (useEncryption = false included).
C28_EqzIsDecoded ==
    /\ eq_pc = "returned" => eq_text = Decoded(eq_resp.body)
    /\ rpc_pc = "returned" => rpc_result = <<"parsed", Decoded(rpc_lastResp.body)>>

(***************************************************************************)
(* Properties of onUnload (main.js)                                        *)
(***************************************************************************)

\* syncOnce is invoked: an invocation that was over, or had not begun, runs.
SyncStarts == \E r \in RunIds : mj_runs[r].pc \in {"free", "done"} /\ mj_runs'[r].pc \notin {"free", "done"}

\* C29: once onUnload has run, the cached session stays destroyed (session
\* null, sessionCreatedAt 0) and the interval timer starts no further
\* syncOnce, however onUnload interleaves with a sync or a login in flight.
C29_UnloadIsFinal ==
    /\ [](mj_unloaded => session = "null" /\ sessionCreatedAt = 0)
    /\ [](mj_unloaded => mj_timer # "active")
    /\ [][mj_unloaded => ~SyncStarts]_vars

(***************************************************************************)
(* Properties of the pausedUntil adapter (part_008)                        *)
(***************************************************************************)

\* syncOnce is called: by onReady, or by the interval timer.
PuSyncOnceCalled ==
    \/ pu_ready = "new" /\ pu_ready' = "syncing"
    \/ pu_pc = "idle" /\ pu_timer = "active" /\ pu_timerDue /\ ~pu_timerDue'

\* login is issued.
PuLoginIssued == pu_pc # "login" /\ pu_pc' = "login"

\* C31: once handleCaptchaBlock has run, in the initial sync of onReady or in
\* a timer-driven sync, no login is attempted while now < pausedUntil, the
\* interval timer is not running, and no later syncOnce is started.
C31_StopOnCaptcha ==
    /\ [][pu_blocked /\ now < pausedUntil => ~PuLoginIssued]_vars
    /\ [](pu_blocked => pu_timer # "active")
    /\ [][pu_blocked => ~PuSyncOnceCalled]_vars

(***************************************************************************)
(* Properties of syncOnce and the cached session (main.js)                 *)
(***************************************************************************)

\* The messages of a failed edupageGetMyDayPlan that contain one of
\* 'responseStart not found', 'gpid/gsh missing', '302', 'login',
\* 'unauthorized', 'forbidden'.
AuthProblemMessages == {"responseStart not found", "gpid/gsh missing"}

\* Invocation r starts its second round of plan calls.
SecondRoundStarts(r) == mj_runs[r].rounds = 1 /\ mj_runs'[r].rounds = 2

\* The second round of plan calls of invocation r is over.
SecondRoundEnds(r) ==
    mj_runs[r].pc = "plans" /\ mj_runs[r].rounds = 2 /\ mj_runs'[r].pc # "plans"

SixHoursMs == 6 * 60 * 60 * 1000

\* syncOnce of invocation r begins: it calls ensureSession.
CallsEnsureSession(r) ==
    mj_runs[r].pc \in {"free", "done"} /\ mj_runs'[r].pc \notin {"free", "done"}

\* ensureSession hands out the cached session: no request of a login is sent,
\* the session, its timestamp and the jar stay, the plan calls start.
ReusesSession(r) ==
    /\ mj_runs'[r].pc = "plans"
    /\ mj_runs'[r].logins = 0
    /\ UNCHANGED <<session, sessionCreatedAt, mj_jar>>

\* ensureSession starts a login.
LogsInAfresh(r) == mj_runs'[r].pc = "loginGet" /\ mj_runs'[r].logins = 1

\* The login of invocation r succeeds.
LoginSucceeds(r) == mj_runs[r].pc = "loginPost" /\ mj_runs'[r].pc = "plans"

\* A round of plan calls is started with the session ensureSession returned.
RoundStarts(r) == mj_runs'[r].rounds > mj_runs[r].rounds

\* C33: ensureSession reuses the cached session, without any request, exactly
\* when there is one and now - sessionCreatedAt < 6 hours, and logs in afresh
\* in every other case; after a successful login sessionCreatedAt is the time
\* of that login; the session handed to the plan calls is younger than 6 hours.
C33_SoftExpiry ==
    [][\A r \in RunIds :
         /\ CallsEnsureSession(r) =>
              IF session # "null" /\ now - sessionCreatedAt < SixHoursMs
              THEN ReusesSession(r)
              ELSE LogsInAfresh(r)
         /\ LoginSucceeds(r) => session' # "null" /\ sessionCreatedAt' = now'
         /\ RoundStarts(r) => session' # "null" /\ now' - sessionCreatedAt' < SixHoursMs]_vars

\* A session cached three hours ago is reused, with no login.
C33_Witness ==
    \E r \in RunIds :
        /\ mj_runs[r].pc = "plans"
        /\ mj_runs[r].logins = 0
        /\ session # "null"
        /\ now - sessionCreatedAt = ClockStepMs

\* C37: in every state between two asynchronous steps, session is null if and
\* only if sessionCreatedAt is 0, however ensureSession, the re-login of
\* syncOnce, _resetSession and onUnload interleave.
C37_SessionAndTimestampAgree == (session = "null") <=> (sessionCreatedAt = 0)

\* A login that was in flight when onUnload ran has cached its session.
C37_Witness ==
    /\ mj_unloaded
    /\ session # "null"
    /\ \E r \in RunIds : mj_runs[r].pc = "plans"

(***************************************************************************)
(* Properties of the failures of the backoff adapter                       *)
(***************************************************************************)

\* A syncOnce that passed the gate ends in failure: it throws, or it returns
\* on a captcha challenge.
SyncEndsInFailure ==
    bo_pc # "idle" /\ bo_pc' = "idle" /\ bo_outcome' \in {"thrown", "captcha"}

\* C34: every syncOnce that passes the gate and ends in failure leaves
\* nextAllowedSyncTs later than the current time, also when an earlier
\* window had expired before this attempt.
C34_FailureClosesGate ==
    [][SyncEndsInFailure => nextAllowedSyncTs' > now']_vars

\* The login was answered with the captcha flag and no captchaSrc.
FlagWithoutSrc ==
    /\ bo_outcome = "captcha"
    /\ bo_loginRes.type = "body"
    /\ bo_loginRes.needCaptcha = "1"
    /\ bo_loginRes.captchaSrc = NoSrc

\* C40: when the login response sets needCaptcha = '1' and gives no
\* captchaSrc, the challenge is handled (a backoff of 60 minutes,
\* info.connection false, nothing thrown) and no URL is reported:
\* meta.captchaSrc stays empty.
C40_NoUrlWithoutSrc ==
    FlagWithoutSrc =>
        /\ nextAllowedSyncTs >= bo_sched.at + 60 * 60 * 1000
        /\ st_connection = FALSE
        /\ st_captchaSrc = NoSrc

\* ---------------------------------------------------------------------------
\* Release of _lastSyncRunning in the captcha-text adapter (part_006)

\* A syncOnce body is between its first await and its finally block.
SyncBodyActive == Running # {}

\* C35: every syncOnce that set _lastSyncRunning clears it again on each of
\* its exit paths (success, the captcha early return, a thrown error): the
\* flag is set only while a body is active, and a set flag is always
\* followed by a cleared one, so no finished syncOnce blocks a later one.
C35_FlagIsReleased ==
    /\ [](lastSyncRunning => SyncBodyActive)
    /\ (lastSyncRunning ~> ~lastSyncRunning)

\* A body has left through the captcha early return and a later one through
\* the catch block, and the flag is clear.
C35_Witness ==
    /\ ~lastSyncRunning
    /\ ~SyncBodyActive
    /\ captchaPending
    /\ ct_lastError # ""
    /\ ct_loginRes # NoLoginRes

\* ---------------------------------------------------------------------------
\* The lifecycle of _captchaPending in the captcha-text adapter (part_006)

\* A login answer that carries needCaptcha '1' or a captchaSrc.
SignalsCaptcha(loginRes) ==
    loginRes.type = "body" /\ (loginRes.needCaptcha = "1" \/ loginRes.captchaSrc # NoSrc)

\* The step settles the login of run r with the answer recorded in loginRes.
LoginSettles(r) == ct_runs[r].pc = "login" /\ ct_runs'[r].pc # "login"

\* C38: _captchaPending and _captchaUrl change only when a login settles with
\* an answer: they become pending only if the login carried no captcha text
\* and the answer signals a captcha, and they are cleared only if the answer
\* has status 'OK'. A sync that ends without a token, with a rejected login
\* or with a transport error leaves both as they were.
C38_CaptchaPendingLifecycle ==
    [][(captchaPending' # captchaPending \/ ct_captchaUrl' # ct_captchaUrl) =>
          \E r \in RunIds :
              /\ LoginSettles(r)
              /\ ct_loginRes'.type = "body"
              /\ IF captchaPending'
                 THEN SignalsCaptcha(ct_loginRes') /\ ct_runs[r].captchaText = ""
                 ELSE ct_loginRes'.status = "OK" /\ ct_captchaUrl' = <<>>]_vars

\* A captcha is pending from an earlier sync and a later sync has failed
\* with a rejected login, leaving it pending.
C38_Witness ==
    /\ captchaPending
    /\ ct_captchaUrl # <<>>
    /\ ct_lastError = "Wrong password"
    /\ ct_loginRes.type = "body" /\ ct_loginRes.status # "OK"

\* ---------------------------------------------------------------------------
\* The error raised by rpc (part_003)

\* The class of the answer to the last POST of the call.
LastAnswer == rpc_resps[Len(rpc_resps)]

\* C36: when rpc fails, the error raised is the outcome of its last attempt:
\* after a last attempt answered with 'eqwd:' it is the error of exhaustion,
\* 'RPC failed (unknown)', and otherwise it is the error of that attempt,
\* never one stored by an earlier attempt.
C36_RaisedErrorIsLastOutcome ==
    rpc_pc = "failed" =>
        IF LastAnswer = "eqwd"
        THEN rpc_thrown = UnknownError
        ELSE rpc_thrown.at = Len(rpc_resps)

\* ---------------------------------------------------------------------------
\* A redirect without Location (part_004, _requestFollow)

\* The step in which a request is answered with a redirect status and no
\* Location header.
RedirectWithoutLocation ==
    /\ rf_pc = "request"
    /\ rf_res'.type = "response"
    /\ rf_res'.status \in RedirectStatuses
    /\ rf_res'.location = NoLocation

\* C39: a redirect response without a Location header ends _requestFollow:
\* that response is the result returned to the caller, no further request is
\* issued by the call, and no error is raised.
C39_RedirectWithoutLocationReturns ==
    /\ [][RedirectWithoutLocation =>
             /\ rf_pc' = "returned"
             /\ rf_result' = rf_res'
             /\ rf_count' = rf_count /\ rf_req' = rf_req
             /\ rf_error' = NoErr]_vars
    /\ [][rf_pc = "returned" =>
             rf_pc' = "returned" /\ rf_count' = rf_count /\ rf_result' = rf_result]_vars

\* A chain that followed one redirect and was then answered with a 302
\* without Location: the 302 is the result, after two requests.
C39_Witness ==
    /\ rf_pc = "returned"
    /\ rf_result.status = 302
    /\ rf_result.location = NoLocation
    /\ rf_count = 2
    /\ rf_error = NoErr

====
